---- MODULE Spec2Model ----
(***************************************************************************)
(* A model of the go-xbee driver (package xbee): the frame codec           *)
(* (writeFrame / the framing part of readLoop), the identifier registry    *)
(* (registerListener, unregisterListener, nextFrameID), the reader task    *)
(* (readLoop) and the request idioms built on them (atCommand, Transmit).  *)
(*                                                                         *)
(* Bytes are naturals in 0..255.  A Go []byte is a TLA+ sequence; Go index *)
(* i is sequence index i+1.  The 65539-byte encode buffer xb.wbuf is kept  *)
(* as the prefix that has been written so far; every byte beyond the       *)
(* prefix still holds the zero that make() put there.                      *)
(***************************************************************************)
EXTENDS Integers, Sequences, FiniteSets, TLC

VARIABLES
    frameID,    \* xb.frameID, the 8-bit counter
    wbuf,       \* xb.wbuf, the shared encode buffer (written prefix)
    idMap,      \* xb.idMap, frame id -> waiter channel
    chans,      \* the waiter channels made by registerListener (capacity 1)
    eventCh,    \* xb.eventCh, the global event channel (capacity 8)
    closed,     \* whether Close has closed xb.eventCh
    written,    \* the frames handed to xb.port.Write, in order
    inb,        \* bytes the module has sent that readLoop has not read yet
    rd,         \* readLoop: its position and the locals it holds
    pc,         \* each caller's position inside its request
    loc,        \* each caller's locals
    nsent,      \* how many frames the module has sent (bounded)
    crashed,    \* the process has died of an unrecovered panic
    callers,    \* the caller tasks of this run (fixed at start)
    menu,       \* the byte strings the module may send in this run (fixed)
    cst,        \* codec specification: stage
    cin,        \* codec specification: the input drawn
    cdec        \* codec specification: what readLoop's framing produced

vars == <<frameID, wbuf, idMap, chans, eventCh, closed, written, inb, rd,
          pc, loc, nsent, crashed, callers, menu, cst, cin, cdec>>

-----------------------------------------------------------------------------
(* Program constants *)

frameDelimiter == 126
frameATCommand == 8
frameZigBeeTransmitRequest == 16
frameATCommandResponse == 136
frameModemStatus == 138
frameZigBeeTransmitStatus == 139
frameZigBeeReceivePacket == 144

CSOK == 0
CSError == 1
CSInvalidCommand == 2
CSInvalidParameter == 3
CSTxFailure == 4

\* make([]byte, 65535+4)
WbufCap == 65539
\* writeFrame refuses n > 65535
MaxFrameLen == 65535
\* make(chan Event, 8)
EventChCap == 8
\* make(chan Event, 1)
WaiterCap == 1
\* atCommand refuses len(val) > 65536-8
MaxATValue == 65528
\* Transmit refuses len(data) > 65536-20
MaxTxData == 65516

atSerialNumberHigh == <<83, 72>>
atSerialNumberLow == <<83, 76>>
atInterfaceDataRate == <<66, 68>>
atAPIEnable == <<65, 80>>
atNodeDiscover == <<78, 68>>

Nil == "nil"

-----------------------------------------------------------------------------
(* Bytes and the encode buffer *)

Max(a, b) == IF a >= b THEN a ELSE b
Min(a, b) == IF a <= b THEN a ELSE b

\* Conversion to byte: byte(x)
Byte(x) == x % 256

\* xb.wbuf[i]
WGet(w, i) == IF i < Len(w) THEN w[i + 1] ELSE 0

\* w with its zeros written out up to length k
Pad(w, k) ==
    IF Len(w) >= k THEN w ELSE w \o [j \in 1..(k - Len(w)) |-> 0]

\* xb.wbuf[i] = v
WSet(w, i, v) ==
    LET p == Pad(w, i + 1)
    IN  SubSeq(p, 1, i) \o <<v>> \o SubSeq(p, i + 2, Len(p))

\* copy(xb.wbuf[at:], src): copies min(len(src), len(wbuf)-at) bytes
WCopy(w, at, src) ==
    LET k == Min(Len(src), WbufCap - at)
        p == Pad(w, at + k)
    IN  SubSeq(p, 1, at) \o SubSeq(src, 1, k) \o SubSeq(p, at + k + 1, Len(p))

\* xb.wbuf[lo:hi]
WSlice(w, lo, hi) == SubSeq(Pad(w, hi), lo + 1, hi)

\* The byte sum of s[lo..hi] (1-based, inclusive), wrapping at 256 as a Go
\* byte accumulator does.  Addition modulo 256 is associative, so the range
\* is folded by halves: the result is that of the code's left-to-right loop.
RECURSIVE SumBytes(_, _, _)
SumBytes(s, lo, hi) ==
    IF lo > hi THEN 0
    ELSE IF lo = hi THEN s[lo] % 256
    ELSE LET mid == (lo + hi) \div 2
         IN  (SumBytes(s, lo, mid) + SumBytes(s, mid + 1, hi)) % 256

-----------------------------------------------------------------------------
(* Frame codec *)

\* writeFrame up to the port write: the length bytes and the checksum are
\* stored into the buffer.
writeFramePrepMissingLenHi(w, n) ==
    LET w2 == WSet(w, 2, Byte(n))
        pl == WSlice(w2, 3, 3 + n)
    IN  WSet(w2, 3 + n, 255 - SumBytes(pl, 1, n))

writeFramePrep(w, n) ==
    LET w1 == WSet(w, 1, Byte(n \div 256))
        w2 == WSet(w1, 2, Byte(n))
        pl == WSlice(w2, 3, 3 + n)
    IN  WSet(w2, 3 + n, 255 - SumBytes(pl, 1, n))

\* The slice writeFrame hands to xb.port.Write: xb.wbuf[:4+n]
writeFrameOutNoChecksum(w, n) == WSlice(w, 0, 3 + n)

writeFrameOut(w, n) == WSlice(w, 0, 4 + n)

\* writeFrame(n) when the port accepts the write
writeFrame(w, n) ==
    IF n < 0 \/ n > MaxFrameLen
    THEN [err |-> "size", wbuf |-> w, out |-> <<>>]
    ELSE LET w3 == writeFramePrep(w, n)
         IN  [err |-> Nil, wbuf |-> w3, out |-> writeFrameOut(w3, n)]

\* Variants of the framing pass
readFrameFlushOnGarbage(s) ==
    IF s[1] # frameDelimiter
    THEN [st |-> "resync", buf |-> <<>>, rest |-> <<>>]
    ELSE IF Len(s) < 3 \/ Len(s) < 4 + s[2] * 256 + s[3]
    THEN [st |-> "wait", buf |-> <<>>, rest |-> s]
    ELSE LET frameLen == s[2] * 256 + s[3]
             rest == SubSeq(s, 5 + frameLen, Len(s))
         IN  IF SumBytes(s, 4, 4 + frameLen) # 255
             THEN [st |-> "badsum", buf |-> <<>>, rest |-> rest]
             ELSE IF frameLen < 2
             THEN [st |-> "tiny", buf |-> <<>>, rest |-> rest]
             ELSE [st |-> "frame", buf |-> SubSeq(s, 4, 3 + frameLen),
                   rest |-> rest]

readFrameNoChecksumTest(s) ==
    IF s[1] # frameDelimiter
    THEN [st |-> "resync", buf |-> <<>>, rest |-> Tail(s)]
    ELSE IF Len(s) < 3 \/ Len(s) < 4 + s[2] * 256 + s[3]
    THEN [st |-> "wait", buf |-> <<>>, rest |-> s]
    ELSE LET frameLen == s[2] * 256 + s[3]
             rest == SubSeq(s, 5 + frameLen, Len(s))
         IN  IF frameLen < 2
             THEN [st |-> "tiny", buf |-> <<>>, rest |-> rest]
             ELSE [st |-> "frame", buf |-> SubSeq(s, 4, 3 + frameLen),
                   rest |-> rest]

\* One pass of readLoop's framing over the unread bytes s (non-empty):
\*   "resync"  a byte other than the delimiter was read and skipped
\*   "wait"    the frame is not complete yet; ReadFull blocks
\*   "badsum"  the checksum test failed
\*   "tiny"    frameLen < 2
\*   "frame"   buf holds the payload (checksum cut off)
\* rest is what remains unread afterwards.
readFrame(s) ==
    IF s[1] # frameDelimiter
    THEN [st |-> "resync", buf |-> <<>>, rest |-> Tail(s)]
    ELSE IF Len(s) < 3
    THEN [st |-> "wait", buf |-> <<>>, rest |-> s]
    ELSE LET frameLen == s[2] * 256 + s[3]
         IN  IF Len(s) < 3 + frameLen + 1
             THEN [st |-> "wait", buf |-> <<>>, rest |-> s]
             ELSE LET buf == SubSeq(s, 4, 4 + frameLen)
                      rest == SubSeq(s, 5 + frameLen, Len(s))
                      checksum == SumBytes(buf, 1, frameLen + 1)
                  IN  IF checksum # 255
                      THEN [st |-> "badsum", buf |-> <<>>, rest |-> rest]
                      ELSE IF frameLen < 2
                      THEN [st |-> "tiny", buf |-> <<>>, rest |-> rest]
                      ELSE [st |-> "frame",
                            buf |-> SubSeq(buf, 1, frameLen),
                            rest |-> rest]

-----------------------------------------------------------------------------
(* Events *)

\* An Event value.  type names the Go type; v holds its scalar fields in
\* declaration order; Data its byte slice; raw is the payload it was decoded
\* from (history, read only by the properties).
\*   ModemStatus        v = <<status>>
\*   ATCommandResponse  v = <<ATCommand[0], ATCommand[1], CommandStatus>>
\*   TransmitStatus     v = <<DestinationAddress, RetryCount,
\*                            DeliveryStatus, DiscoveryStatus>>
\*   ReceivePacket      v = <<SourceAddress, SourceAddress16, ReceiveOptions>>
\*                      (the uint64 SourceAddress as its 8 big-endian bytes)
\*   UnknownFrame       Data = the payload
MkEvent(t, v, d, raw) == [type |-> t, v |-> v, Data |-> d, raw |-> raw]

NoEvent == MkEvent("none", <<>>, <<>>, <<>>)

\* The switch on buf[0] in readLoop.  buf is the payload, len(buf) >= 2.
\* st = "panic" when an index or slice bound is out of range for len(buf).
classifyDataFromStatus(buf) ==
    IF buf[1] = frameATCommandResponse /\ Len(buf) >= 5
    THEN [st |-> "ok", frameID |-> buf[2],
          ev |-> MkEvent("ATCommandResponse", <<buf[3], buf[4], buf[5]>>,
                         SubSeq(buf, 5, Len(buf)), buf)]
    ELSE [st |-> "ok", frameID |-> 0,
          ev |-> MkEvent("UnknownFrame", <<>>, buf, buf)]

classify(buf) ==
    LET n == Len(buf)
        panic == [st |-> "panic", frameID |-> 0, ev |-> NoEvent]
    IN  CASE buf[1] = frameModemStatus ->
                [st |-> "ok", frameID |-> 0,
                 ev |-> MkEvent("ModemStatus", <<buf[2]>>, <<>>, buf)]
          [] buf[1] = frameATCommandResponse ->
                IF n < 5 THEN panic
                ELSE [st |-> "ok", frameID |-> buf[2],
                      ev |-> MkEvent("ATCommandResponse",
                                     <<buf[3], buf[4], buf[5]>>,
                                     SubSeq(buf, 6, n), buf)]
          [] buf[1] = frameZigBeeTransmitStatus ->
                IF n < 7 THEN panic
                ELSE [st |-> "ok", frameID |-> buf[2],
                      ev |-> MkEvent("TransmitStatus",
                                     <<buf[3] * 256 + buf[4], buf[5],
                                       buf[6], buf[7]>>,
                                     <<>>, buf)]
          [] buf[1] = frameZigBeeReceivePacket ->
                IF n < 12 THEN panic
                ELSE [st |-> "ok", frameID |-> 0,
                      ev |-> MkEvent("ReceivePacket",
                                     <<SubSeq(buf, 2, 9),
                                       buf[10] * 256 + buf[11], buf[12]>>,
                                     SubSeq(buf, 13, n), buf)]
          [] OTHER ->
                [st |-> "ok", frameID |-> 0,
                 ev |-> MkEvent("UnknownFrame", <<>>, buf, buf)]

-----------------------------------------------------------------------------
(* Request validation *)

\* An error value: kind and what it carries.
Err(kind, info) == [kind |-> kind, info |-> info]
NoErr == Err(Nil, <<>>)

\* validateATResponse(cmd, res)
validateATResponseTxFailure(cmd, res) ==
    IF <<res.v[1], res.v[2]>> # cmd THEN Err("ATMismatch", <<>>)
    ELSE CASE res.v[3] = CSOK -> NoErr
           [] res.v[3] = CSError -> Err("ErrResponse", <<>>)
           [] res.v[3] = CSInvalidCommand -> Err("ErrInvalidCommand", cmd)
           [] res.v[3] = CSInvalidParameter -> Err("ErrInvalidParameter", <<>>)
           [] res.v[3] = CSTxFailure -> Err("ErrTXFailure", <<>>)
           [] OTHER -> Err("Unknown", <<res.v[3]>>)

validateATResponse(cmd, res) ==
    IF <<res.v[1], res.v[2]>> # cmd THEN Err("ATMismatch", <<>>)
    ELSE CASE res.v[3] = CSOK -> NoErr
           [] res.v[3] = CSError -> Err("ErrResponse", <<>>)
           [] res.v[3] = CSInvalidCommand -> Err("ErrInvalidCommand", cmd)
           [] res.v[3] = CSInvalidParameter -> Err("ErrInvalidParameter", <<>>)
           [] OTHER -> Err("Unknown", <<res.v[3]>>)

\* A returned []byte: NilBytes for nil, Bytes(d) for the slice d.
NilBytes == <<>>
Bytes(d) == <<d>>

\* The result of a request that has not returned
NoRes == [data |-> NilBytes, err |-> NoErr]

\* An atCommand that validates the event without the type assertion
atCommandResultUnchecked(cmd, ev) ==
    LET err == validateATResponse(cmd, ev)
    IN  IF err # NoErr THEN [data |-> NilBytes, err |-> err]
        ELSE [data |-> Bytes(ev.Data), err |-> NoErr]

\* What atCommand returns once ev has been received from its channel:
\* the type assertion, the validation, then res.Data.
atCommandResult(cmd, ev) ==
    IF ev.type # "ATCommandResponse"
    THEN [data |-> NilBytes, err |-> Err("WrongFrame", <<>>)]
    ELSE LET err == validateATResponse(cmd, ev)
         IN  IF err # NoErr THEN [data |-> NilBytes, err |-> err]
             ELSE [data |-> Bytes(ev.Data), err |-> NoErr]

atActiveScan == <<65, 83>>
atNetworkEncryptionKey == <<78, 75>>
atLinkKey == <<75, 89>>

\* bytes.IndexByte(d, b): the 0-based index of the first b in d, or -1
IndexByte(d, b) ==
    IF \E i \in 1..Len(d) : d[i] = b
    THEN (CHOOSE i \in 1..Len(d) : d[i] = b /\ \A j \in 1..(i - 1) : d[j] # b) - 1
    ELSE -1

\* A *Node built from the record bytes: d is res.Data[10:], ix the index of
\* the terminator in d.  The uint64 serial number is kept as its 8 bytes.
MkNode(data, d, ix) ==
    LET t == SubSeq(d, ix + 2, Len(d))
    IN  [SerialNumber |-> SubSeq(data, 3, 10),
         NodeID |-> SubSeq(d, 1, ix),
         ParentNetworkAddress |-> t[1] * 256 + t[2],
         DeviceType |-> t[3],
         Status |-> t[4],
         ProfileID |-> t[5] * 256 + t[6],
         ManufacturerID |-> t[7] * 256 + t[8]]

\* An *ActiveScanDevice built from the record bytes; RSSI is int8.
MkScanDevice(d) ==
    [Type |-> d[1], Channel |-> d[2], PAN |-> d[3] * 256 + d[4],
     ExtendedPAN |-> SubSeq(d, 5, 12), AllowJoin |-> d[13] # 0,
     StackProfile |-> d[14], LQI |-> d[15],
     RSSI |-> IF d[16] >= 128 THEN d[16] - 256 ELSE d[16]]

\* What NodeDiscover and ActiveScan return when the timer fires
deadlineResultNil(nodes) == [data |-> <<>>, err |-> NoErr]

deadlineResult(nodes) == [data |-> nodes, err |-> NoErr]

\* One turn of NodeDiscover's loop on the event ev with nodes gathered:
\*   "ret"    the request returns res
\*   "cont"   a record was appended, the loop goes on
\*   "panic"  an index ran out of range
gatherNode(nodes, ev) ==
    IF ev.type # "ATCommandResponse"
    THEN [st |-> "ret", nodes |-> nodes,
          res |-> [data |-> <<>>, err |-> Err("WrongFrame", <<>>)]]
    ELSE LET err == validateATResponse(atNodeDiscover, ev)
             d == SubSeq(ev.Data, 11, Len(ev.Data))
             ix == IndexByte(d, 0)
         IN  IF err # NoErr
             THEN [st |-> "ret", nodes |-> nodes,
                   res |-> [data |-> nodes, err |-> err]]
             ELSE IF Len(ev.Data) < 18
             THEN [st |-> "ret", nodes |-> nodes,
                   res |-> [data |-> nodes,
                            err |-> Err("ShortRecord", <<Len(ev.Data)>>)]]
             ELSE IF ix < 0
             THEN [st |-> "ret", nodes |-> nodes,
                   res |-> [data |-> nodes, err |-> Err("NoTerminator", <<>>)]]
             ELSE IF Len(d) - (ix + 1) < 8
             THEN [st |-> "panic", nodes |-> nodes, res |-> NoRes]
             ELSE [st |-> "cont",
                   nodes |-> Append(nodes, MkNode(ev.Data, d, ix)),
                   res |-> NoRes]

\* One turn of ActiveScan's loop
gatherScan(devices, ev) ==
    IF ev.type # "ATCommandResponse"
    THEN [st |-> "ret", nodes |-> devices,
          res |-> [data |-> <<>>, err |-> Err("WrongFrame", <<>>)]]
    ELSE LET err == validateATResponse(atActiveScan, ev)
         IN  IF err # NoErr
             THEN [st |-> "ret", nodes |-> devices,
                   res |-> [data |-> devices, err |-> err]]
             ELSE IF Len(ev.Data) < 16
             THEN [st |-> "ret", nodes |-> devices,
                   res |-> [data |-> devices,
                            err |-> Err("ShortRecord", <<Len(ev.Data)>>)]]
             ELSE [st |-> "cont",
                   nodes |-> Append(devices, MkScanDevice(ev.Data)),
                   res |-> NoRes]

-----------------------------------------------------------------------------
(* Values decoded from and encoded into AT parameters *)

\* A uint32 is kept as its two 16-bit halves and a uint64 as its four
\* 16-bit quarters, most significant first.

\* binary.BigEndian.Uint32(b)
Uint32LittleEndian(b) == <<b[4] * 256 + b[3], b[2] * 256 + b[1]>>

Uint32(b) == <<b[1] * 256 + b[2], b[3] * 256 + b[4]>>

\* uint64(u) << 32
ShiftLeft32(u) == u \o <<0, 0>>

\* The bitwise or of two 16-bit quarters
RECURSIVE Or16(_, _, _)
Or16(a, b, k) ==
    IF k = 0 THEN 0
    ELSE 2 * Or16(a \div 2, b \div 2, k - 1)
           + (IF a % 2 = 1 \/ b % 2 = 1 THEN 1 ELSE 0)

\* serial |= uint64(u)
Or64(serial, u) ==
    <<serial[1], serial[2], Or16(serial[3], u[1], 16), Or16(serial[4], u[2], 16)>>

Zero64 == <<0, 0, 0, 0>>

\* decodeUint(b).  The values decoded in the model stay below 2^31, where
\* the uint64 accumulator does not wrap.
RECURSIVE decodeUint(_)
decodeUint(b) ==
    IF b = <<>> THEN 0
    ELSE decodeUint(SubSeq(b, 1, Len(b) - 1)) * 256 + b[Len(b)]

standardDataRates == <<1200, 2400, 4800, 9600, 19200, 38400, 57600, 115200>>

\* InterfaceDataRate: the rate for the value the module returned
dataRateOfAlwaysTable(rate) == standardDataRates[(rate % 8) + 1]

dataRateOf(rate) ==
    IF rate <= 7 THEN standardDataRates[rate + 1] ELSE rate

\* SetInterfaceDataRate: the parameter sent for baud, the index of baud in
\* the table when it is there and baud itself otherwise, as four bytes
rateParam(baud) ==
    LET si == IF \E i \in 1..Len(standardDataRates) :
                     standardDataRates[i] = baud
              THEN (CHOOSE i \in 1..Len(standardDataRates) :
                        standardDataRates[i] = baud) - 1
              ELSE baud
    IN  <<Byte(si \div 16777216), Byte(si \div 65536), Byte(si \div 256),
          Byte(si % 256)>>

\* What SerialNumber, InterfaceDataRate, SetInterfaceDataRate and
\* APIEnabled do with the result res of the atCommand they called (cmd its
\* AT identifier, acc the serial number so far): "ret" returns r, "next"
\* calls atCommand for SL, "panic" is an index out of range.  APIEnabled
\* evaluates b[0] == 2 before it returns, whatever err is.
wrapResult(via, cmd, acc, res) ==
    LET d == IF res.data = NilBytes THEN <<>> ELSE res.data[1]
        ret(r) == [st |-> "ret", r |-> r, acc |-> acc]
    IN  CASE via = "SerialNumber" ->
               IF res.err # NoErr
               THEN ret([data |-> Bytes(Zero64), err |-> res.err])
               ELSE IF Len(d) # 4
               THEN ret([data |-> Bytes(Zero64),
                         err |-> Err("Shape", <<Len(d)>>)])
               ELSE IF cmd = atSerialNumberHigh
               THEN [st |-> "next", r |-> NoRes,
                     acc |-> ShiftLeft32(Uint32(d))]
               ELSE ret([data |-> Bytes(Or64(acc, Uint32(d))), err |-> NoErr])
          [] via = "InterfaceDataRate" ->
               IF res.err # NoErr
               THEN ret([data |-> Bytes(0), err |-> res.err])
               ELSE ret([data |-> Bytes(dataRateOf(decodeUint(d))),
                         err |-> NoErr])
          [] via = "APIEnabled" ->
               IF Len(d) = 0
               THEN [st |-> "panic", r |-> NoRes, acc |-> acc]
               ELSE ret([data |-> Bytes(d[1] = 2), err |-> res.err])
          [] OTHER -> ret([data |-> NilBytes, err |-> res.err])

-----------------------------------------------------------------------------
(* Identifier registry and counter *)

\* xb.idMap is a function whose domain is the set of registered frame ids;
\* a waiter channel is named by the caller that made it.
EmptyMap == <<>>

\* registerListener: xb.idMap[frameID] = ch (replaces any entry for frameID)
registerListener(m, id, ch) ==
    [k \in DOMAIN m \cup {id} |-> IF k = id THEN ch ELSE m[k]]

\* unregisterListener: delete(xb.idMap, frameID)
unregisterListenerKeeps(m, id) == m

unregisterListener(m, id) == [k \in DOMAIN m \ {id} |-> m[k]]

\* The nil channel, and a channel no caller holds any more
NilCh == 0
OrphanCh == -1

\* readLoop's lookup: ch stays nil for frameID 0 or when no entry exists
lookup(m, id) == IF id # 0 /\ id \in DOMAIN m THEN m[id] ELSE NilCh

\* nextFrameID run without interference: the new counter value, which is
\* also the value returned
nextFrameIDNoSkip(f) == Byte(f + 1)

nextFrameID(f) == LET g == Byte(f + 1) IN IF g = 0 THEN 1 ELSE g

-----------------------------------------------------------------------------
(* Frame construction *)

\* atCommand: xb.wbuf[3..6] = frameATCommand, frameID, cmd[0], cmd[1]
fillATHeader(w, id, cmd) ==
    WSet(WSet(WSet(WSet(w, 3, frameATCommand), 4, id), 5, cmd[1]), 6, cmd[2])

\* Transmit: xb.wbuf[3..16] = frameZigBeeTransmitRequest, frameID, the eight
\* bytes of dest, the two bytes of net, broadcastRadius, options.
\* hdr holds the twelve bytes after the frame id.
fillTxHeaderAsATCommand(w, id, hdr) ==
    WCopy(WSet(WSet(w, 3, frameATCommand), 4, id), 5, hdr)

fillTxHeader(w, id, hdr) ==
    WCopy(WSet(WSet(w, 3, frameZigBeeTransmitRequest), 4, id), 5, hdr)

\* The number of header stores of a request, and the byte its k-th store
\* (k from 0) puts at xb.wbuf[3+k]
HeaderLen(op) == IF op = "tx" THEN 14 ELSE 4

HeaderByte(op, id, cmd, hdr, k) ==
    CASE k = 0 -> IF op = "tx" THEN frameZigBeeTransmitRequest
                  ELSE frameATCommand
      [] k = 1 -> id
      [] OTHER -> IF op = "tx" THEN hdr[k - 1] ELSE cmd[k - 1]

\* The operations that build an AT command frame and register a waiter:
\* atCommand ("at"), NodeDiscover ("nd") and ActiveScan ("as"); Transmit
\* ("tx") builds a transmit request and registers none.
UsesWaiter(op) == op \in {"at", "nd", "as"}

\* Where the variable part starts, and the n given to writeFrame
ValueAt(op) == IF UsesWaiter(op) THEN 7 ELSE 17
FrameN(op, val) == IF UsesWaiter(op) THEN 4 + Len(val) ELSE 14 + Len(val)

-----------------------------------------------------------------------------
(* Bounds and inputs of the model *)

\* Caller tasks of the concurrent specification
NumCallers == 2
\* Requests the caller issues when it is alone
MaxReq == 1
\* Requests each of the concurrent callers issues
ConcReq == 1
\* Frames the module sends
MaxIn == 1

Procs == 1..NumCallers

\* Counter values a run starts from: a fresh driver, and a driver that has
\* completed 255 Transmit calls before the run begins.
StartIDs == {0, 255}

atZZ == <<90, 90>>

\* Transmit to the coordinator, 16-bit address unknown, radius 0, options 0
TxHdr == <<0, 0, 0, 0, 0, 0, 0, 0, 255, 254, 0, 0>>
TxData == <<104, 105>>

\* The requests a caller may issue
Requests ==
    { [op |-> "at", cmd |-> atSerialNumberHigh, hdr |-> <<>>, val |-> <<>>],
      [op |-> "at", cmd |-> atZZ, hdr |-> <<>>, val |-> <<1>>],
      [op |-> "tx", cmd |-> <<>>, hdr |-> TxHdr, val |-> TxData] }

\* The wire form of a payload, as the module sends it
Frame(p) ==
    <<frameDelimiter, Len(p) \div 256, Len(p) % 256>> \o p
        \o <<255 - SumBytes(p, 1, Len(p))>>

ATResp(id, at, status, data) ==
    <<frameATCommandResponse, id>> \o at \o <<status>> \o data

RxPacket == <<frameZigBeeReceivePacket, 1, 19, 162, 0, 64, 0, 0, 1, 18, 52,
              1, 111, 107>>

\* What the module may send to a single caller: responses to the frame ids
\* the caller is given (1 and 2) with every status, a foreign AT
\* identifier and empty data; unsolicited frames whose second byte equals
\* a frame id in use; frames shorter than their kind's layout.
MenuSeq ==
    { Frame(ATResp(1, atSerialNumberHigh, st, <<0, 19>>)) : st \in 0..5 }
    \cup
    { Frame(ATResp(1, atZZ, CSOK, <<7>>)),
      Frame(ATResp(1, atZZ, CSInvalidCommand, <<>>)),
      Frame(ATResp(1, atSerialNumberHigh, CSOK, <<>>)),
      Frame(ATResp(2, atSerialNumberHigh, CSOK, <<0, 19>>)),
      Frame(<<frameModemStatus, 1>>),
      Frame(<<frameZigBeeTransmitStatus, 1, 255, 254, 0, 0, 0>>),
      Frame(RxPacket),
      Frame(<<153, 1>>),
      Frame(<<frameATCommandResponse, 1>>),
      Frame(<<frameZigBeeTransmitStatus, 1, 0>>),
      Frame(<<frameZigBeeReceivePacket, 1>>) }

\* What the module may send in the concurrent specification
MenuConc ==
    { Frame(ATResp(1, atSerialNumberHigh, CSOK, <<0, 19>>)) }

\* Values one byte longer than atCommand and Transmit accept
OversizeValue == [i \in 1..(MaxATValue + 1) |-> 0]
OversizeData == [i \in 1..(MaxTxData + 1) |-> 0]

\* The longest data Transmit accepts, and data four bytes longer
LongestData == [i \in 1..MaxTxData |-> (5 * i + 2) % 256]
TooLongData == [i \in 1..(MaxTxData + 4) |-> 0]

\* Requests of the size specification: refused and accepted calls of
\* atCommand and of Transmit, on both sides of each limit
SizeRequests ==
    { [op |-> "at", cmd |-> atZZ, hdr |-> <<>>, val |-> OversizeValue],
      [op |-> "at", cmd |-> atZZ, hdr |-> <<>>, val |-> <<1>>],
      [op |-> "tx", cmd |-> <<>>, hdr |-> TxHdr, val |-> OversizeData],
      [op |-> "tx", cmd |-> <<>>, hdr |-> TxHdr, val |-> TxData],
      [op |-> "tx", cmd |-> <<>>, hdr |-> TxHdr, val |-> LongestData],
      [op |-> "tx", cmd |-> <<>>, hdr |-> TxHdr, val |-> TooLongData] }

\* Keys of 0, 15, 16 and 17 bytes
SizeKeys == { [i \in 1..n |-> 170] : n \in {0, 15, 16, 17} }
KeyAPIs == {"SetLinkKey", "SetNetworkEncryptionKey"}

\* What the module may send in the size specification
MenuSize ==
    { Frame(ATResp(1, atLinkKey, CSOK, <<>>)),
      Frame(ATResp(1, atNetworkEncryptionKey, CSInvalidParameter, <<>>)),
      Frame(ATResp(1, atZZ, CSOK, <<7>>)) }

\* Frames the module sends during a gathering request
MaxGatherIn == 2

\* The gathering requests
GatherRequests ==
    { [op |-> "nd", cmd |-> atNodeDiscover, hdr |-> <<>>, val |-> <<>>],
      [op |-> "as", cmd |-> atActiveScan, hdr |-> <<>>, val |-> <<>>] }

\* Node discovery records: two unknown bytes, the serial number, the node
\* identifier with its terminator, then eight bytes of fixed fields
NodeRecA == <<255, 254, 0, 19, 162, 0, 64, 1, 2, 3, 65, 0, 255, 254, 1, 0,
              193, 5, 16, 30>>
NodeRecB == <<0, 0, 0, 19, 162, 0, 64, 9, 9, 9, 0, 255, 254, 2, 0, 193, 5,
              16, 30>>
\* Eighteen bytes whose terminator leaves seven bytes after it
NodeRecCut == <<0, 0, 0, 19, 162, 0, 64, 9, 9, 9, 0, 255, 254, 2, 0, 193, 5,
                16>>
\* Eighteen bytes with no terminator, and seventeen bytes
NodeRecNoNul == <<1, 1, 1, 19, 162, 1, 64, 9, 9, 9, 66, 67, 68, 69, 70, 71,
                  72, 73>>
NodeRecShort == SubSeq(NodeRecA, 1, 17)
\* An active scan record, and one a byte short
ScanRec == <<2, 11, 18, 52, 0, 19, 162, 0, 0, 0, 0, 1, 1, 2, 200, 216>>
ScanRecShort == SubSeq(ScanRec, 1, 15)

\* What the module may send during a gathering request
MenuGather ==
    { Frame(ATResp(1, atNodeDiscover, CSOK, NodeRecA)),
      Frame(ATResp(1, atNodeDiscover, CSOK, NodeRecB)),
      Frame(ATResp(1, atNodeDiscover, CSOK, NodeRecCut)),
      Frame(ATResp(1, atNodeDiscover, CSOK, NodeRecNoNul)),
      Frame(ATResp(1, atNodeDiscover, CSOK, NodeRecShort)),
      Frame(ATResp(1, atNodeDiscover, CSError, <<>>)),
      Frame(ATResp(1, atActiveScan, CSOK, ScanRec)),
      Frame(ATResp(1, atActiveScan, CSOK, ScanRecShort)),
      Frame(<<frameZigBeeTransmitStatus, 1, 255, 254, 0, 0, 0>>),
      Frame(<<frameModemStatus, 6>>) }

\* Frames the module sends during a gathering request whose owner may call
\* Close: a well-formed record, the record that makes NodeDiscover panic,
\* a modem status
MaxCloseIn == 3

MenuGatherClose ==
    { Frame(ATResp(1, atNodeDiscover, CSOK, NodeRecA)),
      Frame(ATResp(1, atNodeDiscover, CSOK, NodeRecCut)),
      Frame(<<frameModemStatus, 6>>) }

\* Frames the module sends when each carries its place on the wire
MaxOrderIn == 3

\* The kinds of frame sent then: a modem status, a node discovery response
\* to frame id 1, and one to frame id 2, which no request of the run holds
OrderedKinds == {"modem", "nd1", "nd2"}

\* The payload of kind carrying k: as the status of a modem status frame,
\* or as the one-byte node identifier of a node discovery record
OrderedPayload(kind, k) ==
    IF kind = "modem" THEN <<frameModemStatus, k>>
    ELSE ATResp(IF kind = "nd1" THEN 1 ELSE 2, atNodeDiscover, CSOK,
                SubSeq(NodeRecA, 1, 10) \o <<64 + k>>
                    \o SubSeq(NodeRecA, 12, 20))

\* What the module may send when the caller issues any of the requests
MenuExit ==
    MenuGather
    \cup { Frame(ATResp(1, atSerialNumberHigh, CSOK, <<0, 19>>)),
           Frame(ATResp(1, atSerialNumberHigh, CSError, <<>>)) }

\* Frames the module sends during a call of SerialNumber or of the data
\* rate operations
MaxWrapIn == 2

\* The exported operations built on one or two atCommand calls
WrapAPIs ==
    {"SerialNumber", "InterfaceDataRate", "SetInterfaceDataRate",
     "APIEnabled"}

\* Rates given to SetInterfaceDataRate: table entries and others
Bauds == {1200, 9600, 115200, 230400, 900, 3}

WrapCalls ==
    { [api |-> "SerialNumber", arg |-> 0],
      [api |-> "InterfaceDataRate", arg |-> 0] }
    \cup { [api |-> "SetInterfaceDataRate", arg |-> b] : b \in Bauds }

\* What the module may send to them: SH and SL values of four bytes and of
\* other lengths, an SH error, data rate values inside and outside the
\* table in several widths, a refused parameter
MenuWrap ==
    { Frame(ATResp(1, atSerialNumberHigh, CSOK, <<0, 19, 162, 0>>)),
      Frame(ATResp(1, atSerialNumberHigh, CSOK, <<0, 19, 162>>)),
      Frame(ATResp(1, atSerialNumberHigh, CSError, <<>>)),
      Frame(ATResp(2, atSerialNumberLow, CSOK, <<64, 9, 255, 254>>)),
      Frame(ATResp(2, atSerialNumberLow, CSOK, <<64, 9, 9, 9, 9>>)),
      Frame(ATResp(1, atInterfaceDataRate, CSOK, <<0, 0, 0, 3>>)),
      Frame(ATResp(1, atInterfaceDataRate, CSOK, <<3, 132>>)),
      Frame(ATResp(1, atInterfaceDataRate, CSOK, <<0, 0, 3, 132>>)),
      Frame(ATResp(1, atInterfaceDataRate, CSOK, <<7>>)),
      Frame(ATResp(1, atInterfaceDataRate, CSOK, <<8>>)),
      Frame(ATResp(1, atInterfaceDataRate, CSOK, <<>>)),
      Frame(ATResp(1, atInterfaceDataRate, CSInvalidParameter, <<>>)) }

\* What the module may send to APIEnabled: mode bytes 2 and 1, a value of
\* two bytes, no data, a refusal, a response to another command, and a
\* transmit status frame with the request's frame id
MenuAPI ==
    { Frame(ATResp(1, atAPIEnable, CSOK, <<2>>)),
      Frame(ATResp(1, atAPIEnable, CSOK, <<1>>)),
      Frame(ATResp(1, atAPIEnable, CSOK, <<2, 0>>)),
      Frame(ATResp(1, atAPIEnable, CSOK, <<>>)),
      Frame(ATResp(1, atAPIEnable, CSError, <<>>)),
      Frame(ATResp(1, atSerialNumberHigh, CSOK, <<2>>)),
      Frame(<<frameZigBeeTransmitStatus, 1, 255, 254, 0, 0, 0>>) }

\* How many times the module sends in a run
SendLimit(m) ==
    CASE m \in {MenuGather, MenuExit} -> MaxGatherIn
      [] m = MenuGatherClose -> MaxCloseIn
      [] m = MenuWrap -> MaxWrapIn
      [] OTHER -> MaxIn

-----------------------------------------------------------------------------
(* Inputs of the codec specification *)

\* Longest payload drawn byte by byte
MaxLen == 3

\* Byte values drawn: zero, the delimiter, the largest byte, a frame kind
CodecBytes == {0, frameDelimiter, 255, frameATCommandResponse}

\* Every byte string over CodecBytes of length at most k
RECURSIVE SeqsUpTo(_)
SeqsUpTo(k) ==
    IF k = 0 THEN {<<>>}
    ELSE LET shorter == SeqsUpTo(k - 1)
         IN  shorter \cup {Append(q, b) : q \in shorter, b \in CodecBytes}

\* Long payloads: lengths around the one-byte limit of the length field,
\* and the longest payload writeFrame accepts
LongLens == {255, 256, 65535}
LongPayload(n) == [i \in 1..n |-> (7 * i + 1) % 256]

\* An input: op "raw" puts pre at xb.wbuf[3:] and calls writeFrame(n), so
\* the payload is the first n bytes of pre and the rest is left over from
\* an earlier, longer frame; op "at" builds the frame as atCommand(cmd, val)
\* does on a driver whose counter is fid0.
CodecInput(op, pre, n, fid0, cmd, val) ==
    [op |-> op, pre |-> pre, n |-> n, fid0 |-> fid0, cmd |-> cmd, val |-> val]

NoInput == CodecInput("none", <<>>, 0, 0, <<>>, <<>>)
NoFrame == [st |-> "none", buf |-> <<>>, rest |-> <<>>]

CodecInputs ==
    { CodecInput("raw", q, n, 0, <<>>, <<>>) :
          q \in SeqsUpTo(MaxLen), n \in 0..MaxLen }
    \cup { CodecInput("raw", LongPayload(n), n, 0, <<>>, <<>>) :
              n \in LongLens }
    \cup { CodecInput("raw", <<>>, MaxFrameLen + 1, 0, <<>>, <<>>) }
    \cup { CodecInput("at", <<>>, 4 + Len(v), f, c, v) :
              f \in {0, 1, 254, 255}, c \in {atSerialNumberHigh, atZZ},
              v \in {<<>>, <<1>>} }

-----------------------------------------------------------------------------
(* State after Open *)

\* A caller's locals: the operation and its arguments (vlen is the length
\* of the value or key as given, via the exported wrapper called, arg its
\* numeric argument, acc the serial number SerialNumber has so far), the
\* value nextFrameID loaded, the frame id, the event received, the records
\* gathered, the result returned, and the number of calls made; k is the
\* caller's place within the stores of a header or within writeFrame, sum
\* the local checksum of writeFrame's loop, out the bytes xb.port.Write has
\* read from xb.wbuf so far.
InitLoc ==
    [op |-> "none", cmd |-> <<>>, hdr |-> <<>>, val |-> <<>>, r |-> 0,
     fid |-> 0, ev |-> NoEvent, res |-> NoRes, nreq |-> 0,
     nodes |-> <<>>, via |-> "none", vlen |-> 0, arg |-> 0, acc |-> <<>>,
     k |-> 0, sum |-> 0, out |-> <<>>]

\* xb.wbuf after Open (wbuf[0] = frameDelimiter), and after the k-th of k
\* completed Transmit calls
WbufAfter(k) ==
    IF k = 0 THEN <<frameDelimiter>>
    ELSE writeFramePrep(
             WCopy(fillTxHeader(<<frameDelimiter>>, k, TxHdr), 17, TxData),
             14 + Len(TxData))

InitDriver ==
    /\ frameID \in StartIDs
    /\ wbuf = WbufAfter(frameID)
    /\ idMap = EmptyMap
    /\ chans = [c \in Procs |-> <<>>]
    /\ eventCh = <<>>
    /\ closed = FALSE
    /\ written = <<>>
    /\ inb = <<>>
    /\ rd = [pc |-> "scan", ev |-> NoEvent, ch |-> NilCh]
    /\ pc = [c \in Procs |-> "idle"]
    /\ loc = [c \in Procs |-> InitLoc]
    /\ nsent = 0
    /\ crashed = FALSE
    /\ cst = "off"
    /\ cin = NoInput
    /\ cdec = NoFrame

\* One caller, the reader and the module
Init ==
    /\ InitDriver
    /\ callers = {1}
    /\ menu = MenuSeq

\* Events left unread on the global event channel by earlier traffic
Backlog(n) == [i \in 1..n |-> MkEvent("ModemStatus", <<6>>, <<>>,
                                       <<frameModemStatus, 6>>)]

\* One caller issuing a gathering request; the application has left the
\* event channel empty or one short of full
InitGather ==
    /\ frameID \in StartIDs
    /\ wbuf = WbufAfter(frameID)
    /\ idMap = EmptyMap
    /\ chans = [c \in Procs |-> <<>>]
    /\ eventCh \in {<<>>, Backlog(EventChCap - 1)}
    /\ closed = FALSE
    /\ written = <<>>
    /\ inb = <<>>
    /\ rd = [pc |-> "scan", ev |-> NoEvent, ch |-> NilCh]
    /\ pc = [c \in Procs |-> "idle"]
    /\ loc = [c \in Procs |-> InitLoc]
    /\ nsent = 0
    /\ crashed = FALSE
    /\ cst = "off"
    /\ cin = NoInput
    /\ cdec = NoFrame
    /\ callers = {1}
    /\ menu = MenuGather

\* Concurrent callers, the reader and the module.  The counter stands at
\* 255, from where concurrent callers can be given 0, 1 and 2.
InitConc ==
    /\ InitDriver
    /\ frameID = 255
    /\ callers = Procs
    /\ menu = MenuConc

-----------------------------------------------------------------------------
(* Caller tasks: atCommand and Transmit *)

Goto(c, l) == pc' = [pc EXCEPT ![c] = l]

\* The size tests of atCommand (len(val) > 65536-8) and Transmit
\* (len(data) > 65536-20); NodeDiscover and ActiveScan have none
tooLongInclusive(op, n) ==
    op \in {"at", "tx"} /\ n >= (IF op = "tx" THEN MaxTxData ELSE MaxATValue)

tooLong(op, n) ==
    op \in {"at", "tx"} /\ n > (IF op = "tx" THEN MaxTxData ELSE MaxATValue)

\* Entry of atCommand / Transmit: the size check, then the load of
\* xb.frameID that begins nextFrameID's xb.frameID++
Call(c, rq) ==
    /\ ~crashed /\ c \in callers
    /\ pc[c] = "idle"
    /\ loc[c].nreq < (IF callers = {c} THEN MaxReq ELSE ConcReq)
    /\ LET l0 == [loc[c] EXCEPT !.op = rq.op, !.cmd = rq.cmd, !.hdr = rq.hdr,
                                 !.val = <<>>, !.ev = NoEvent,
                                 !.res = NoRes, !.fid = 0,
                                 !.nreq = loc[c].nreq + 1,
                                 !.nodes = <<>>, !.via = rq.op,
                                 !.vlen = Len(rq.val)]
       IN  IF tooLong(rq.op, Len(rq.val))
           THEN /\ loc' = [loc EXCEPT ![c] =
                              [l0 EXCEPT !.res = [data |-> NilBytes,
                                                  err |-> Err("Size", <<>>)]]]
                /\ UNCHANGED pc
           ELSE /\ loc' = [loc EXCEPT ![c] =
                              [l0 EXCEPT !.r = frameID, !.val = rq.val]]
                /\ Goto(c, "nfStore")
    /\ UNCHANGED <<frameID, wbuf, idMap, chans, eventCh, closed, written,
                   inb, rd, nsent, crashed, callers, menu, cst, cin, cdec>>

\* The key length tests of SetLinkKey and SetNetworkEncryptionKey: whether
\* the call is refused
keySizeErrorLax(api, key) == Len(key) > 16

keySizeError(api, key) ==
    IF api = "SetNetworkEncryptionKey" /\ Len(key) = 0 THEN FALSE
    ELSE Len(key) # 16

\* SetLinkKey(key) / SetNetworkEncryptionKey(key): the key length test, then
\* atCommand(atLinkKey / atNetworkEncryptionKey, key), whose own size test
\* passes.  An empty network key is replaced by sixteen zero bytes.
CallKey(c, api, key) ==
    /\ ~crashed /\ c \in callers
    /\ pc[c] = "idle"
    /\ loc[c].nreq < (IF callers = {c} THEN MaxReq ELSE ConcReq)
    /\ LET l0 == [loc[c] EXCEPT !.op = "at",
                                 !.cmd = IF api = "SetLinkKey" THEN atLinkKey
                                         ELSE atNetworkEncryptionKey,
                                 !.hdr = <<>>, !.val = <<>>, !.ev = NoEvent,
                                 !.res = NoRes, !.fid = 0,
                                 !.nreq = loc[c].nreq + 1,
                                 !.nodes = <<>>, !.via = api,
                                 !.vlen = Len(key)]
       IN  IF keySizeError(api, key)
           THEN /\ loc' = [loc EXCEPT ![c] =
                              [l0 EXCEPT !.res =
                                  [data |-> NilBytes,
                                   err |-> Err("KeySize", <<Len(key) * 8>>)]]]
                /\ UNCHANGED pc
           ELSE /\ loc' = [loc EXCEPT ![c] =
                              [l0 EXCEPT !.r = frameID,
                                         !.val = IF Len(key) = 0
                                                 THEN [i \in 1..16 |-> 0]
                                                 ELSE key]]
                /\ Goto(c, "nfStore")
    /\ UNCHANGED <<frameID, wbuf, idMap, chans, eventCh, closed, written,
                   inb, rd, nsent, crashed, callers, menu, cst, cin, cdec>>

\* Entry of SerialNumber / InterfaceDataRate / SetInterfaceDataRate(arg) /
\* APIEnabled: the first atCommand call, up to the load of xb.frameID
CallWrap(c, api, arg) ==
    /\ ~crashed /\ c \in callers
    /\ pc[c] = "idle"
    /\ loc[c].nreq < (IF callers = {c} THEN MaxReq ELSE ConcReq)
    /\ LET val == IF api = "SetInterfaceDataRate" THEN rateParam(arg)
                  ELSE <<>>
       IN  loc' = [loc EXCEPT ![c] =
                     [op |-> "at",
                      cmd |-> CASE api = "SerialNumber" -> atSerialNumberHigh
                                [] api = "APIEnabled" -> atAPIEnable
                                [] OTHER -> atInterfaceDataRate,
                      hdr |-> <<>>, val |-> val, r |-> frameID, fid |-> 0,
                      ev |-> NoEvent, res |-> NoRes,
                      nreq |-> loc[c].nreq + 1, nodes |-> <<>>,
                      via |-> api, vlen |-> Len(val), arg |-> arg,
                      acc |-> <<>>, k |-> 0, sum |-> 0, out |-> <<>>]]
    /\ Goto(c, "nfStore")
    /\ UNCHANGED <<frameID, wbuf, idMap, chans, eventCh, closed, written,
                   inb, rd, nsent, crashed, callers, menu, cst, cin, cdec>>

\* atCommand has returned to SerialNumber / InterfaceDataRate /
\* SetInterfaceDataRate / APIEnabled: the operation returns, or
\* SerialNumber calls atCommand(atSerialNumberLow, nil), or the index b[0]
\* of APIEnabled is out of range, which ends the process
WrapReturn(c) ==
    /\ ~crashed /\ pc[c] = "wrap"
    /\ LET w == wrapResult(loc[c].via, loc[c].cmd, loc[c].acc, loc[c].res)
       IN  CASE w.st = "next" ->
                  /\ loc' = [loc EXCEPT ![c].cmd = atSerialNumberLow,
                                        ![c].acc = w.acc,
                                        ![c].ev = NoEvent,
                                        ![c].res = NoRes,
                                        ![c].fid = 0,
                                        ![c].r = frameID]
                  /\ Goto(c, "nfStore")
                  /\ UNCHANGED crashed
             [] w.st = "panic" ->
                  /\ crashed' = TRUE
                  /\ UNCHANGED <<pc, loc>>
             [] OTHER ->
                  /\ loc' = [loc EXCEPT ![c].res = w.r]
                  /\ Goto(c, "idle")
                  /\ UNCHANGED crashed
    /\ UNCHANGED <<frameID, wbuf, idMap, chans, eventCh, closed, written,
                   inb, rd, nsent, callers, menu, cst, cin, cdec>>

\* nextFrameID: the store that ends xb.frameID++
NfStore(c) ==
    /\ ~crashed /\ pc[c] = "nfStore"
    /\ frameID' = Byte(loc[c].r + 1)
    /\ Goto(c, "nfCheck")
    /\ UNCHANGED <<wbuf, idMap, chans, eventCh, closed, written, inb, rd,
                   loc, nsent, crashed, callers, menu, cst, cin, cdec>>

\* nextFrameID: if xb.frameID == 0
NfCheck(c) ==
    /\ ~crashed /\ pc[c] = "nfCheck"
    /\ Goto(c, IF frameID = 0 THEN "nfFix" ELSE "nfRet")
    /\ UNCHANGED <<frameID, wbuf, idMap, chans, eventCh, closed, written,
                   inb, rd, loc, nsent, crashed, callers, menu, cst, cin, cdec>>

\* nextFrameID: xb.frameID = 1
NfFix(c) ==
    /\ ~crashed /\ pc[c] = "nfFix"
    /\ frameID' = 1
    /\ Goto(c, "nfRet")
    /\ UNCHANGED <<wbuf, idMap, chans, eventCh, closed, written, inb, rd,
                   loc, nsent, crashed, callers, menu, cst, cin, cdec>>

\* nextFrameID: return xb.frameID
NfRet(c) ==
    /\ ~crashed /\ pc[c] = "nfRet"
    /\ loc' = [loc EXCEPT ![c].fid = frameID]
    /\ Goto(c, "hdr")
    /\ UNCHANGED <<frameID, wbuf, idMap, chans, eventCh, closed, written,
                   inb, rd, nsent, crashed, callers, menu, cst, cin, cdec>>

\* The stores of the frame kind, frame id and fixed fields into xb.wbuf.
\* Nothing synchronises them: with other callers running, each store
\* xb.wbuf[3+k] = ... is a step of its own, between which the others may
\* run.  When c is the only caller no other task reads or writes xb.wbuf
\* (the reader has its own buffer), and the stores are taken together.
FillHeader(c) ==
    /\ ~crashed /\ pc[c] = "hdr"
    /\ LET next == IF UsesWaiter(loc[c].op) /\ Len(loc[c].val) = 0
                   THEN "reg" ELSE "copy"
           k == loc[c].k
       IN  IF callers = {c}
           THEN /\ wbuf' = IF UsesWaiter(loc[c].op)
                           THEN fillATHeader(wbuf, loc[c].fid, loc[c].cmd)
                           ELSE fillTxHeader(wbuf, loc[c].fid, loc[c].hdr)
                /\ Goto(c, next)
                /\ UNCHANGED loc
           ELSE /\ wbuf' = WSet(wbuf, 3 + k,
                                HeaderByte(loc[c].op, loc[c].fid, loc[c].cmd,
                                           loc[c].hdr, k))
                /\ IF k + 1 < HeaderLen(loc[c].op)
                   THEN /\ loc' = [loc EXCEPT ![c].k = k + 1]
                        /\ UNCHANGED pc
                   ELSE /\ loc' = [loc EXCEPT ![c].k = 0]
                        /\ Goto(c, next)
    /\ UNCHANGED <<frameID, idMap, chans, eventCh, closed, written, inb, rd,
                   nsent, crashed, callers, menu, cst, cin, cdec>>

\* copy(xb.wbuf[7:], val) in atCommand, copy(xb.wbuf[17:], data) in Transmit
CopyValue(c) ==
    /\ ~crashed /\ pc[c] = "copy"
    /\ wbuf' = WCopy(wbuf, ValueAt(loc[c].op), loc[c].val)
    /\ Goto(c, IF UsesWaiter(loc[c].op) THEN "reg" ELSE "wfPrep")
    /\ UNCHANGED <<frameID, idMap, chans, eventCh, closed, written, inb, rd,
                   loc, nsent, crashed, callers, menu, cst, cin, cdec>>

\* ch := xb.registerListener(frameID).  The channel is new: one the reader
\* took from the map for an earlier request of c is no longer c's.
Register(c) ==
    /\ ~crashed /\ pc[c] = "reg"
    /\ idMap' = registerListener(idMap, loc[c].fid, c)
    /\ chans' = [chans EXCEPT ![c] = <<>>]
    /\ rd' = IF rd.ch = c THEN [rd EXCEPT !.ch = OrphanCh] ELSE rd
    /\ Goto(c, "wfPrep")
    /\ UNCHANGED <<frameID, wbuf, eventCh, closed, written, inb, loc, nsent,
                   crashed, callers, menu, cst, cin, cdec>>

\* Return from the request with result res; atCommand's deferred
\* unregisterListener runs first.
Return(c, res) ==
    /\ loc' = [loc EXCEPT ![c].res = res]
    /\ Goto(c, IF UsesWaiter(loc[c].op) THEN "unreg" ELSE "idle")

\* writeFrame: the size test, the length bytes, the checksum.  Nothing
\* synchronises its accesses to xb.wbuf: with other callers running, the
\* store of each length byte, each read of the checksum loop and the store
\* of the checksum are steps of their own (k = 0 the size test and
\* xb.wbuf[1], k = 1 xb.wbuf[2], k = 2..n+1 the loop's reads of
\* xb.wbuf[3..3+n-1] into the local checksum, k = n+2 xb.wbuf[3+n]).  When
\* c is the only caller no other task reads or writes xb.wbuf, and they are
\* taken together.
WriteFramePrep(c) ==
    /\ ~crashed /\ pc[c] = "wfPrep"
    /\ LET n == FrameN(loc[c].op, loc[c].val)
           k == loc[c].k
       IN  IF n < 0 \/ n > MaxFrameLen
           THEN /\ Return(c, [data |-> NilBytes, err |-> Err("Size", <<>>)])
                /\ UNCHANGED wbuf
           ELSE IF callers = {c}
           THEN /\ wbuf' = writeFramePrep(wbuf, n)
                /\ Goto(c, "wfWrite")
                /\ UNCHANGED loc
           ELSE CASE k = 0 ->
                       /\ wbuf' = WSet(wbuf, 1, Byte(n \div 256))
                       /\ loc' = [loc EXCEPT ![c].k = 1]
                       /\ UNCHANGED pc
                  [] k = 1 ->
                       /\ wbuf' = WSet(wbuf, 2, Byte(n))
                       /\ loc' = [loc EXCEPT ![c].k = 2, ![c].sum = 0]
                       /\ UNCHANGED pc
                  [] k >= 2 /\ k <= n + 1 ->
                       /\ loc' = [loc EXCEPT
                                    ![c].k = k + 1,
                                    ![c].sum = Byte(loc[c].sum
                                                    + WGet(wbuf, 3 + (k - 2)))]
                       /\ UNCHANGED <<wbuf, pc>>
                  [] OTHER ->
                       /\ wbuf' = WSet(wbuf, 3 + n, 255 - loc[c].sum)
                       /\ loc' = [loc EXCEPT ![c].k = 0, ![c].sum = 0]
                       /\ Goto(c, "wfWrite")
    /\ UNCHANGED <<frameID, idMap, chans, eventCh, closed, written, inb, rd,
                   nsent, crashed, callers, menu, cst, cin, cdec>>

\* writeFrame: xb.port.Write(xb.wbuf[:4+n]), which the port may refuse.
\* Write reads the shared buffer with no lock held: with other callers
\* running, each read of a byte xb.wbuf[k], k = 0..3+n, is a step of its
\* own, and the port receives the bytes as they were read; the step that
\* reads the last byte also ends the call.  When c is the only caller no
\* other task writes xb.wbuf, and the bytes are read together.
WriteFramePort(c) ==
    /\ ~crashed /\ pc[c] = "wfWrite"
    /\ LET n == FrameN(loc[c].op, loc[c].val)
           k == loc[c].k
           out == IF callers = {c} THEN writeFrameOut(wbuf, n)
                  ELSE Append(loc[c].out, WGet(wbuf, k))
       IN  IF callers # {c} /\ k < 3 + n
           THEN /\ loc' = [loc EXCEPT ![c].k = k + 1, ![c].out = out]
                /\ UNCHANGED <<pc, written>>
           ELSE \E ok \in BOOLEAN :
                  IF ok
                  THEN /\ written' = Append(written,
                                            [by |-> c, bytes |-> out])
                       /\ Goto(c, CASE loc[c].op = "at" -> "recv"
                                     [] loc[c].op \in {"nd", "as"} -> "gather"
                                     [] OTHER -> "idle")
                       /\ loc' = [loc EXCEPT ![c].k = 0, ![c].out = <<>>]
                  ELSE /\ loc' = [loc EXCEPT
                                    ![c].k = 0, ![c].out = <<>>,
                                    ![c].res = [data |-> NilBytes,
                                                err |-> Err("IO", <<>>)]]
                       /\ Goto(c, IF UsesWaiter(loc[c].op) THEN "unreg"
                                  ELSE "idle")
                       /\ UNCHANGED written
    /\ UNCHANGED <<frameID, wbuf, idMap, chans, eventCh, closed, inb, rd,
                   nsent, crashed, callers, menu, cst, cin, cdec>>

\* An atCommand that gives up when its channel is empty
ReceiveOrGiveUp(c) ==
    /\ ~crashed /\ pc[c] = "recv"
    /\ chans' = [chans EXCEPT ![c] = IF @ = <<>> THEN @ ELSE Tail(@)]
    /\ loc' = IF chans[c] = <<>>
              THEN [loc EXCEPT ![c].res = [data |-> NilBytes,
                                           err |-> Err("Timeout", <<>>)]]
              ELSE [loc EXCEPT ![c].ev = Head(chans[c]),
                               ![c].res = atCommandResult(loc[c].cmd,
                                                          Head(chans[c]))]
    /\ Goto(c, "unreg")
    /\ UNCHANGED <<frameID, wbuf, idMap, eventCh, closed, written, inb, rd,
                   nsent, crashed, callers, menu, cst, cin, cdec>>

\* atCommand: ev := <-ch, the type assertion and validateATResponse
Receive(c) ==
    /\ ~crashed /\ pc[c] = "recv"
    /\ chans[c] # <<>>
    /\ chans' = [chans EXCEPT ![c] = Tail(chans[c])]
    /\ loc' = [loc EXCEPT ![c].ev = Head(chans[c]),
                          ![c].res = atCommandResult(loc[c].cmd, Head(chans[c]))]
    /\ Goto(c, "unreg")
    /\ UNCHANGED <<frameID, wbuf, idMap, eventCh, closed, written, inb, rd,
                   nsent, crashed, callers, menu, cst, cin, cdec>>

\* The deferred xb.unregisterListener(frameID), then the return: to the
\* exported operation that called atCommand, or to the application
Unregister(c) ==
    /\ ~crashed /\ pc[c] = "unreg"
    /\ idMap' = unregisterListener(idMap, loc[c].fid)
    /\ Goto(c, IF loc[c].via \in WrapAPIs THEN "wrap" ELSE "idle")
    /\ UNCHANGED <<frameID, wbuf, chans, eventCh, closed, written, inb, rd,
                   loc, nsent, crashed, callers, menu, cst, cin, cdec>>

\* NodeDiscover / ActiveScan: the case <-waitCh of the select.  The timer
\* started after the write may fire at any turn of the loop.
Deadline(c) ==
    /\ ~crashed /\ pc[c] = "gather"
    /\ Return(c, deadlineResult(loc[c].nodes))
    /\ UNCHANGED <<frameID, wbuf, idMap, chans, eventCh, closed, written,
                   inb, rd, nsent, crashed, callers, menu, cst, cin, cdec>>

\* NodeDiscover / ActiveScan: the case ev = <-ch of the select and the rest
\* of that turn of the loop.  When an index of the record decode is out of
\* range the function panics: the caller starts to unwind while the reader
\* and the module keep running.
GatherRecv(c) ==
    /\ ~crashed /\ pc[c] = "gather"
    /\ chans[c] # <<>>
    /\ chans' = [chans EXCEPT ![c] = Tail(chans[c])]
    /\ LET ev == Head(chans[c])
           g == IF loc[c].op = "nd" THEN gatherNode(loc[c].nodes, ev)
                ELSE gatherScan(loc[c].nodes, ev)
       IN  CASE g.st = "panic" ->
                  /\ Goto(c, "panic")
                  /\ UNCHANGED loc
             [] g.st = "cont" ->
                  /\ loc' = [loc EXCEPT ![c].ev = ev, ![c].nodes = g.nodes]
                  /\ UNCHANGED pc
             [] OTHER ->
                  /\ loc' = [loc EXCEPT ![c].ev = ev, ![c].res = g.res]
                  /\ Goto(c, "unreg")
    /\ UNCHANGED <<frameID, wbuf, idMap, eventCh, closed, written, inb, rd,
                   nsent, crashed, callers, menu, cst, cin, cdec>>

\* The panic unwinds the gathering function: its deferred
\* xb.unregisterListener(frameID) takes xb.mu and deletes the entry.
PanicUnwind(c) ==
    /\ ~crashed /\ pc[c] = "panic"
    /\ idMap' = unregisterListener(idMap, loc[c].fid)
    /\ Goto(c, "exit")
    /\ UNCHANGED <<frameID, wbuf, chans, eventCh, closed, written, inb, rd,
                   loc, nsent, crashed, callers, menu, cst, cin, cdec>>

\* Nothing recovers the panic: once the deferred call has returned, the
\* process ends.
PanicExit(c) ==
    /\ ~crashed /\ pc[c] = "exit"
    /\ crashed' = TRUE
    /\ UNCHANGED <<frameID, wbuf, idMap, chans, eventCh, closed, written,
                   inb, rd, pc, loc, nsent, callers, menu, cst, cin, cdec>>


-----------------------------------------------------------------------------
(* The reader task: readLoop *)

\* One pass of the loop up to the map lookup: the delimiter, the length,
\* the payload and checksum, the classification, and ch = xb.idMap[frameID]
\* under xb.mu.  An index out of range panics, which ends the process.
ReadLoopRead ==
    /\ ~crashed /\ rd.pc = "scan"
    /\ inb # <<>>
    /\ LET f == readFrame(inb)
       IN  /\ f.st # "wait"
           /\ inb' = f.rest
           /\ IF f.st = "frame"
              THEN LET k == classify(f.buf)
                   IN  IF k.st = "panic"
                       THEN crashed' = TRUE /\ UNCHANGED rd
                       ELSE /\ rd' = [pc |-> "send", ev |-> k.ev,
                                      ch |-> lookup(idMap, k.frameID)]
                            /\ UNCHANGED crashed
              ELSE UNCHANGED <<rd, crashed>>
    /\ UNCHANGED <<frameID, wbuf, idMap, chans, eventCh, closed, written,
                   pc, loc, nsent, callers, menu, cst, cin, cdec>>

\* A reader whose sends wait for room in the channel
ReadLoopSendBlocking ==
    /\ ~crashed /\ rd.pc = "send"
    /\ IF rd.ch \in Procs THEN Len(chans[rd.ch]) < WaiterCap
       ELSE rd.ch = OrphanCh \/ Len(eventCh) < EventChCap
    /\ chans' = IF rd.ch \in Procs
                THEN [chans EXCEPT ![rd.ch] = Append(@, rd.ev)] ELSE chans
    /\ eventCh' = IF rd.ch = NilCh THEN Append(eventCh, rd.ev) ELSE eventCh
    /\ rd' = [pc |-> "scan", ev |-> NoEvent, ch |-> NilCh]
    /\ UNCHANGED <<frameID, wbuf, idMap, closed, written, inb, pc, loc,
                   nsent, crashed, callers, menu, cst, cin, cdec>>

\* A reader whose sends put the event at the head of the channel
ReadLoopSendAtHead ==
    /\ ~crashed /\ rd.pc = "send"
    /\ chans' = IF rd.ch \in Procs /\ Len(chans[rd.ch]) < WaiterCap
                THEN [chans EXCEPT ![rd.ch] = <<rd.ev>> \o @] ELSE chans
    /\ eventCh' = IF rd.ch = NilCh /\ Len(eventCh) < EventChCap
                  THEN <<rd.ev>> \o eventCh ELSE eventCh
    /\ rd' = [pc |-> "scan", ev |-> NoEvent, ch |-> NilCh]
    /\ UNCHANGED <<frameID, wbuf, idMap, closed, written, inb, pc, loc,
                   nsent, crashed, callers, menu, cst, cin, cdec>>

\* The two selects: a non-blocking send to the waiter's channel when one
\* was found, to xb.eventCh otherwise.  A send on a closed channel panics.
ReadLoopSend ==
    /\ ~crashed /\ rd.pc = "send"
    /\ IF rd.ch # NilCh
       THEN /\ chans' = IF rd.ch # OrphanCh /\ Len(chans[rd.ch]) < WaiterCap
                        THEN [chans EXCEPT ![rd.ch] = Append(@, rd.ev)]
                        ELSE chans
            /\ UNCHANGED <<eventCh, crashed>>
       ELSE /\ IF closed
               THEN crashed' = TRUE /\ UNCHANGED eventCh
               ELSE /\ eventCh' = IF Len(eventCh) < EventChCap
                                  THEN Append(eventCh, rd.ev)
                                  ELSE eventCh
                    /\ UNCHANGED crashed
            /\ UNCHANGED chans
    /\ rd' = [pc |-> "scan", ev |-> NoEvent, ch |-> NilCh]
    /\ UNCHANGED <<frameID, wbuf, idMap, closed, written, inb, pc, loc,
                   nsent, callers, menu, cst, cin, cdec>>

\* A read on xb.port fails (EOF or an I/O error) while the reader waits for
\* bytes: readLoop returns the error and the reader task ends.
ReadLoopErr ==
    /\ ~crashed /\ rd.pc = "scan"
    /\ IF inb = <<>> THEN TRUE ELSE readFrame(inb).st = "wait"
    /\ rd' = [rd EXCEPT !.pc = "stopped"]
    /\ UNCHANGED <<frameID, wbuf, idMap, chans, eventCh, closed, written,
                   inb, pc, loc, nsent, crashed, callers, menu, cst, cin, cdec>>

-----------------------------------------------------------------------------
(* The environment: the module and the owner of the driver *)

\* The module sends bytes once the reader has consumed the previous ones.
ModuleSend(bs) ==
    /\ ~crashed /\ rd.pc # "stopped"
    /\ nsent < SendLimit(menu)
    /\ inb = <<>>
    /\ bs \in menu
    /\ inb' = bs
    /\ nsent' = nsent + 1
    /\ UNCHANGED <<frameID, wbuf, idMap, chans, eventCh, closed, written,
                   rd, pc, loc, crashed, callers, menu, cst, cin, cdec>>

\* The module sends its next frame behind the bytes still unread.  The k-th
\* frame of the run carries k, so that the order on the wire can be read
\* from the events.
ModuleSendOrdered(kind) ==
    /\ ~crashed /\ rd.pc # "stopped"
    /\ nsent < MaxOrderIn
    /\ inb' = inb \o Frame(OrderedPayload(kind, nsent + 1))
    /\ nsent' = nsent + 1
    /\ UNCHANGED <<frameID, wbuf, idMap, chans, eventCh, closed, written,
                   rd, pc, loc, crashed, callers, menu, cst, cin, cdec>>

\* Close: close(xb.eventCh).  Closing a closed channel panics.
Close ==
    /\ ~crashed
    /\ IF closed THEN crashed' = TRUE /\ UNCHANGED closed
                 ELSE closed' = TRUE /\ UNCHANGED crashed
    /\ UNCHANGED <<frameID, wbuf, idMap, chans, eventCh, written, inb, rd,
                   pc, loc, nsent, callers, menu, cst, cin, cdec>>

-----------------------------------------------------------------------------
(* Specifications *)

CallerStep(c) ==
    \/ \E rq \in Requests : Call(c, rq)
    \/ NfStore(c)
    \/ NfCheck(c)
    \/ NfFix(c)
    \/ NfRet(c)
    \/ FillHeader(c)
    \/ CopyValue(c)
    \/ Register(c)
    \/ WriteFramePrep(c)
    \/ WriteFramePort(c)
    \/ Receive(c)
    \/ Unregister(c)

Next ==
    \/ \E c \in Procs : CallerStep(c)
    \/ ReadLoopRead
    \/ ReadLoopSend
    \/ ReadLoopErr
    \/ \E bs \in menu : ModuleSend(bs)

\* One caller with the reader and the module
Spec == Init /\ [][Next]_vars

\* One caller whose calls include refused sizes
InitSize ==
    /\ InitDriver
    /\ callers = {1}
    /\ menu = MenuSize

SizeStep(c) ==
    \/ \E rq \in SizeRequests : Call(c, rq)
    \/ \E api \in KeyAPIs, key \in SizeKeys : CallKey(c, api, key)
    \/ NfStore(c)
    \/ NfCheck(c)
    \/ NfFix(c)
    \/ NfRet(c)
    \/ FillHeader(c)
    \/ CopyValue(c)
    \/ Register(c)
    \/ WriteFramePrep(c)
    \/ WriteFramePort(c)
    \/ Receive(c)
    \/ Unregister(c)

NextSize ==
    \/ \E c \in Procs : SizeStep(c)
    \/ ReadLoopRead
    \/ ReadLoopSend
    \/ \E bs \in menu : ModuleSend(bs)

SpecSize == InitSize /\ [][NextSize]_vars

\* Successive allocations by one caller on a fresh driver
MaxAlloc == 300

InitAlloc ==
    /\ InitDriver
    /\ frameID = 0
    /\ callers = {1}
    /\ menu = {}

\* One call of nextFrameID by caller c, nothing else running: fid is the
\* value returned, r the value the call before it returned
Allocate(c) ==
    /\ c \in callers /\ pc[c] = "idle"
    /\ loc[c].nreq < MaxAlloc
    /\ frameID' = nextFrameID(frameID)
    /\ loc' = [loc EXCEPT ![c].r = loc[c].fid,
                          ![c].fid = nextFrameID(frameID),
                          ![c].nreq = loc[c].nreq + 1]
    /\ UNCHANGED <<wbuf, idMap, chans, eventCh, closed, written, inb, rd, pc,
                   nsent, crashed, callers, menu, cst, cin, cdec>>

NextAlloc == \E c \in Procs : Allocate(c)

SpecAlloc == InitAlloc /\ [][NextAlloc]_vars

\* One caller issuing any request, with the reader and the module
InitExit ==
    /\ InitDriver
    /\ callers = {1}
    /\ menu = MenuExit

ExitStep(c) ==
    \/ \E rq \in Requests \cup GatherRequests : Call(c, rq)
    \/ NfStore(c)
    \/ NfCheck(c)
    \/ NfFix(c)
    \/ NfRet(c)
    \/ FillHeader(c)
    \/ CopyValue(c)
    \/ Register(c)
    \/ WriteFramePrep(c)
    \/ WriteFramePort(c)
    \/ Receive(c)
    \/ Deadline(c)
    \/ GatherRecv(c)
    \/ Unregister(c)

NextExit ==
    \/ \E c \in Procs : ExitStep(c)
    \/ \E c \in Procs : PanicUnwind(c)
    \/ \E c \in Procs : PanicExit(c)
    \/ ReadLoopRead
    \/ ReadLoopSend
    \/ \E bs \in menu : ModuleSend(bs)

SpecExit == InitExit /\ [][NextExit]_vars

\* One caller of SerialNumber and of the data rate operations
InitWrap ==
    /\ InitDriver
    /\ callers = {1}
    /\ menu = MenuWrap

WrapStep(c) ==
    \/ \E w \in WrapCalls : CallWrap(c, w.api, w.arg)
    \/ NfStore(c)
    \/ NfCheck(c)
    \/ NfFix(c)
    \/ NfRet(c)
    \/ FillHeader(c)
    \/ CopyValue(c)
    \/ Register(c)
    \/ WriteFramePrep(c)
    \/ WriteFramePort(c)
    \/ Receive(c)
    \/ Unregister(c)
    \/ WrapReturn(c)

NextWrap ==
    \/ \E c \in Procs : WrapStep(c)
    \/ ReadLoopRead
    \/ ReadLoopSend
    \/ \E bs \in menu : ModuleSend(bs)

SpecWrap == InitWrap /\ [][NextWrap]_vars

\* One caller of APIEnabled
InitAPI ==
    /\ InitDriver
    /\ callers = {1}
    /\ menu = MenuAPI

APIStep(c) ==
    \/ CallWrap(c, "APIEnabled", 0)
    \/ NfStore(c)
    \/ NfCheck(c)
    \/ NfFix(c)
    \/ NfRet(c)
    \/ FillHeader(c)
    \/ Register(c)
    \/ WriteFramePrep(c)
    \/ WriteFramePort(c)
    \/ Receive(c)
    \/ Unregister(c)
    \/ WrapReturn(c)

NextAPI ==
    \/ \E c \in Procs : APIStep(c)
    \/ ReadLoopRead
    \/ ReadLoopSend
    \/ \E bs \in menu : ModuleSend(bs)

SpecAPI == InitAPI /\ [][NextAPI]_vars

GatherStep(c) ==
    \/ \E rq \in GatherRequests : Call(c, rq)
    \/ NfStore(c)
    \/ NfCheck(c)
    \/ NfFix(c)
    \/ NfRet(c)
    \/ FillHeader(c)
    \/ Register(c)
    \/ WriteFramePrep(c)
    \/ WriteFramePort(c)
    \/ Deadline(c)
    \/ GatherRecv(c)
    \/ Unregister(c)

NextGather ==
    \/ \E c \in Procs : GatherStep(c)
    \/ \E c \in Procs : PanicUnwind(c)
    \/ \E c \in Procs : PanicExit(c)
    \/ ReadLoopRead
    \/ ReadLoopSend
    \/ \E bs \in menu : ModuleSend(bs)

\* One caller gathering, with the reader and the module
SpecGather == InitGather /\ [][NextGather]_vars

\* One caller gathering while the owner may call Close at any moment
InitGatherClose ==
    /\ frameID \in StartIDs
    /\ wbuf = WbufAfter(frameID)
    /\ idMap = EmptyMap
    /\ chans = [c \in Procs |-> <<>>]
    /\ eventCh \in {<<>>, Backlog(EventChCap - 1)}
    /\ closed = FALSE
    /\ written = <<>>
    /\ inb = <<>>
    /\ rd = [pc |-> "scan", ev |-> NoEvent, ch |-> NilCh]
    /\ pc = [c \in Procs |-> "idle"]
    /\ loc = [c \in Procs |-> InitLoc]
    /\ nsent = 0
    /\ crashed = FALSE
    /\ cst = "off"
    /\ cin = NoInput
    /\ cdec = NoFrame
    /\ callers = {1}
    /\ menu = MenuGatherClose

NextGatherClose ==
    \/ NextGather
    \/ Close

SpecGatherClose == InitGatherClose /\ [][NextGatherClose]_vars

\* One caller gathering while the module sends frames that carry their
\* place on the wire
InitOrder ==
    /\ InitDriver
    /\ callers = {1}
    /\ menu = {}

NextOrder ==
    \/ \E c \in Procs : GatherStep(c)
    \/ ReadLoopRead
    \/ ReadLoopSend
    \/ \E kind \in OrderedKinds : ModuleSendOrdered(kind)

SpecOrder == InitOrder /\ [][NextOrder]_vars

\* The requests concurrent callers issue: the AT commands.  Each store of a
\* header, each read of the checksum loop and each read of the port write
\* is then a step of its own; Transmit's 14 header stores and 16 or more
\* reads per caller are left to the one-caller specifications.  Caller 1
\* issues the command without a value and the others either command:
\* callers are interchangeable, so only the pair in which both commands
\* carry a value is left out.
ConcRequests == { rq \in Requests : rq.op = "at" }

ConcRequestsOf(c) ==
    IF c = 1 THEN { rq \in ConcRequests : rq.val = <<>> } ELSE ConcRequests

ConcStep(c) ==
    \/ \E rq \in ConcRequestsOf(c) : Call(c, rq)
    \/ NfStore(c)
    \/ NfCheck(c)
    \/ NfFix(c)
    \/ NfRet(c)
    \/ FillHeader(c)
    \/ CopyValue(c)
    \/ Register(c)
    \/ WriteFramePrep(c)
    \/ WriteFramePort(c)
    \/ Receive(c)
    \/ Unregister(c)

NextConc ==
    \/ \E c \in Procs : ConcStep(c)
    \/ ReadLoopRead
    \/ ReadLoopSend
    \/ \E bs \in menu : ModuleSend(bs)

\* Concurrent callers with the reader and the module
SpecConc == InitConc /\ [][NextConc]_vars

-----------------------------------------------------------------------------
(* The codec on its own: a frame is built in a fresh buffer, written by     *)
(* writeFrame, and the bytes written are given to readLoop's framing.      *)

InitCodec ==
    /\ cin \in CodecInputs
    /\ cst = "start"
    /\ cdec = NoFrame
    /\ frameID = cin.fid0
    /\ wbuf = <<frameDelimiter>>
    /\ idMap = EmptyMap
    /\ chans = [c \in Procs |-> <<>>]
    /\ eventCh = <<>>
    /\ closed = FALSE
    /\ written = <<>>
    /\ inb = <<>>
    /\ rd = [pc |-> "scan", ev |-> NoEvent, ch |-> NilCh]
    /\ pc = [c \in Procs |-> "idle"]
    /\ loc = [c \in Procs |-> InitLoc]
    /\ nsent = 0
    /\ crashed = FALSE
    /\ callers = {}
    /\ menu = {}

\* The frame is put into xb.wbuf.  For atCommand that is the part of its
\* body before writeFrame: the frame id, the header, the value, and
\* ch := xb.registerListener(frameID), the waiter being caller 1's channel.
CodecFill ==
    /\ cst = "start"
    /\ IF cin.op = "at"
       THEN /\ frameID' = nextFrameID(frameID)
            /\ wbuf' = WCopy(fillATHeader(wbuf, frameID', cin.cmd), 7, cin.val)
            /\ idMap' = registerListener(idMap, frameID', 1)
       ELSE /\ wbuf' = WCopy(wbuf, 3, cin.pre)
            /\ UNCHANGED <<frameID, idMap>>
    /\ cst' = "filled"
    /\ UNCHANGED <<chans, eventCh, closed, written, inb, rd, pc, loc,
                   nsent, crashed, callers, menu, cin, cdec>>

\* writeFrame(n) on a port that accepts the write
CodecWrite ==
    /\ cst = "filled"
    /\ LET r == writeFrame(wbuf, cin.n)
       IN  /\ wbuf' = r.wbuf
           /\ IF r.err = Nil
              THEN /\ written' = <<[by |-> 0, bytes |-> r.out]>>
                   /\ cst' = "written"
              ELSE /\ UNCHANGED written
                   /\ cst' = "refused"
    /\ UNCHANGED <<frameID, idMap, chans, eventCh, closed, inb, rd, pc, loc,
                   nsent, crashed, callers, menu, cin, cdec>>

\* The bytes written arrive at a reader, which frames them
CodecRead ==
    /\ cst = "written"
    /\ cdec' = readFrame(written[1].bytes)
    /\ cst' = "read"
    /\ UNCHANGED <<frameID, wbuf, idMap, chans, eventCh, closed, written,
                   inb, rd, pc, loc, nsent, crashed, callers, menu, cin>>

NextCodec == CodecFill \/ CodecWrite \/ CodecRead

SpecCodec == InitCodec /\ [][NextCodec]_vars

-----------------------------------------------------------------------------
(* Properties of the codec (SpecCodec) *)

\* The byte sum of s[lo..hi] without wrapping
RECURSIVE PlainSum(_, _, _)
PlainSum(s, lo, hi) ==
    IF lo > hi THEN 0
    ELSE IF lo = hi THEN s[lo]
    ELSE LET mid == (lo + hi) \div 2
         IN  PlainSum(s, lo, mid) + PlainSum(s, mid + 1, hi)

\* The payload the drawn input asks writeFrame to send
CodecPayload ==
    IF cin.op = "at"
    THEN <<frameATCommand, IF cin.fid0 = 255 THEN 1 ELSE cin.fid0 + 1>>
             \o cin.cmd \o cin.val
    ELSE SubSeq(Pad(cin.pre, cin.n), 1, cin.n)

\* C9 as stated: for every payload P of length 1..65535 the bytes writeFrame
\* produces, given to readLoop's framing, yield P with the checksum accepted.
C9_RoundTripFromLength1 ==
    (cst = "read" /\ cin.n >= 1 /\ cin.n <= MaxFrameLen)
        => /\ cdec.st = "frame"
           /\ cdec.buf = CodecPayload
           /\ cdec.rest = <<>>

\* C9 amended: for every payload P of length 2..65535 the bytes writeFrame
\* produces, given to readLoop's framing, yield P with the checksum accepted
\* and nothing left over; a payload of length 0 or 1 passes the checksum and
\* is discarded as a tiny frame.
C9_RoundTripFromLength2 ==
    (cst = "read" /\ cin.n <= MaxFrameLen)
        => IF cin.n >= 2
           THEN /\ cdec.st = "frame"
                /\ cdec.buf = CodecPayload
                /\ cdec.rest = <<>>
           ELSE cdec.st = "tiny" /\ cdec.rest = <<>>

\* A payload whose length needs both length bytes has made the round trip
C9_Witness ==
    /\ cst = "read" /\ cin.n = 256
    /\ cdec.st = "frame" /\ Len(cdec.buf) = 256
    /\ cdec.buf = CodecPayload /\ cdec.rest = <<>>

\* C10: writeFrame(n), 0 <= n <= 65535, writes exactly 4 + n bytes: 0x7E,
\* n as two big-endian bytes, the n payload bytes, and a checksum byte with
\* (sum of payload bytes + checksum) mod 256 = 0xFF; the first SH request
\* of a fresh driver writes 7E 00 04 08 01 53 48 5B.
C10_WriteFrameLayout ==
    /\ (cin.n >= 0 /\ cin.n <= MaxFrameLen) => cst # "refused"
    /\ cst = "written" =>
          LET out == written[1].bytes
              n == cin.n
          IN  /\ Len(out) = 4 + n
              /\ out[1] = 126
              /\ out[2] * 256 + out[3] = n
              /\ out[2] \in 0..255 /\ out[3] \in 0..255
              /\ SubSeq(out, 4, 3 + n) = CodecPayload
              /\ out[4 + n] \in 0..255
              /\ (PlainSum(CodecPayload, 1, n) + out[4 + n]) % 256 = 255
    /\ (/\ cst = "written" /\ cin.op = "at" /\ cin.fid0 = 0
        /\ cin.cmd = <<83, 72>> /\ cin.val = <<>>)
          => written[1].bytes = <<126, 0, 4, 8, 1, 83, 72, 91>>

\* The first SH request of a fresh driver has been written
C10_Witness ==
    /\ cst = "written" /\ cin.op = "at" /\ cin.fid0 = 0
    /\ cin.cmd = <<83, 72>> /\ cin.val = <<>>
    /\ written[1].bytes = <<126, 0, 4, 8, 1, 83, 72, 91>>

-----------------------------------------------------------------------------
(* Properties of request handling (Spec) *)

\* The Go types of the events readLoop makes
EventTypes ==
    {"ModemStatus", "ATCommandResponse", "TransmitStatus", "ReceivePacket",
     "UnknownFrame"}

\* The frame the reader is about to take from the port, if a whole one is there
RdFrame == IF rd.pc = "scan" /\ inb # <<>> THEN readFrame(inb) ELSE NoFrame

\* This step is the reader taking a checksum-valid frame of the given kinds
ReaderTakes(kinds) ==
    /\ ~crashed
    /\ RdFrame.st = "frame"
    /\ RdFrame.buf[1] \in kinds
    /\ inb' = RdFrame.rest

\* This step is the reader's send of an event of the given types
ReaderSends(types) ==
    /\ ~crashed
    /\ rd.pc = "send" /\ rd.ev.type \in types
    /\ rd'.pc = "scan"

\* Caller c has returned from a request
Returned(c) == pc[c] = "idle" /\ loc[c].nreq > 0

\* C1: when the reader decodes a checksum-valid AT command response whose
\* frame id k is not 0 while a waiter is registered for k, the event is
\* delivered to that waiter's channel and never to the global event channel.
C1_ResponseDeliveredToWaiter ==
    /\ [][ (/\ ReaderTakes({frameATCommandResponse})
            /\ RdFrame.buf[2] # 0
            /\ RdFrame.buf[2] \in DOMAIN idMap)
           => (/\ ~crashed'
               /\ rd'.pc = "send"
               /\ rd'.ev.type = "ATCommandResponse"
               /\ rd'.ev.raw = RdFrame.buf
               /\ rd'.ch = idMap[RdFrame.buf[2]]) ]_vars
    /\ [][ (ReaderSends({"ATCommandResponse"}) /\ rd.ch \in Procs)
           => (/\ ~crashed'
               /\ eventCh' = eventCh
               /\ chans'[rd.ch] = Append(chans[rd.ch], rd.ev)) ]_vars

\* C2: when the reader decodes a checksum-valid response frame (AT command
\* response or transmit status) whose frame id has no registered waiter, the
\* event is placed on the global event channel, provided that channel is not
\* full.
C2_UnmatchedResponseToGlobal ==
    /\ [][ (/\ ReaderTakes({frameATCommandResponse, frameZigBeeTransmitStatus})
            /\ lookup(idMap, RdFrame.buf[2]) = NilCh)
           => (/\ ~crashed'
               /\ rd'.pc = "send"
               /\ rd'.ev.type \in {"ATCommandResponse", "TransmitStatus"}
               /\ rd'.ev.raw = RdFrame.buf
               /\ rd'.ch = NilCh) ]_vars
    /\ [][ (/\ ReaderSends({"ATCommandResponse", "TransmitStatus"})
            /\ rd.ch = NilCh
            /\ Len(eventCh) < EventChCap)
           => (/\ ~crashed'
               /\ eventCh' = Append(eventCh, rd.ev)
               /\ chans' = chans) ]_vars

\* C3: a modem status frame (0x8A) or a receive packet frame (0x90) is
\* always routed to the global event channel, whatever its bytes are and
\* whichever waiters are registered.
C3_UnsolicitedToGlobal ==
    /\ [][ ReaderTakes({frameModemStatus, frameZigBeeReceivePacket})
           => (/\ ~crashed'
               /\ rd'.pc = "send"
               /\ rd'.ev.type \in {"ModemStatus", "ReceivePacket"}
               /\ rd'.ev.raw = RdFrame.buf
               /\ rd'.ch = NilCh) ]_vars
    /\ [][ ReaderSends({"ModemStatus", "ReceivePacket"})
           => (/\ rd.ch = NilCh
               /\ chans' = chans
               /\ (Len(eventCh) < EventChCap /\ ~crashed')
                     => eventCh' = Append(eventCh, rd.ev)) ]_vars

\* C4: when atCommand(cmd, v) has sent frame id k and received an AT command
\* response for k whose AT identifier equals cmd, whose status is 0 and
\* whose data is d, it returns d and no error.
C4_ATCommandReturnsData ==
    \A c \in Procs :
        LET raw == loc[c].ev.raw
        IN  (/\ Returned(c) /\ loc[c].op = "at"
             /\ Len(raw) >= 5
             /\ raw[1] = frameATCommandResponse
             /\ raw[2] = loc[c].fid
             /\ <<raw[3], raw[4]>> = loc[c].cmd
             /\ raw[5] = 0)
            => loc[c].res = [data |-> Bytes(SubSeq(raw, 6, Len(raw))),
                             err |-> NoErr]

\* A caller has returned the two data bytes of an OK response
C4_Witness ==
    \E c \in Procs :
        /\ Returned(c) /\ loc[c].op = "at"
        /\ loc[c].ev.raw = ATResp(loc[c].fid, loc[c].cmd, 0, <<0, 19>>)
        /\ loc[c].res = [data |-> Bytes(<<0, 19>>), err |-> NoErr]

\* C5: what atCommand returns for a received AT command response: an error
\* when the AT identifier differs from the request's; otherwise success for
\* status 0, the generic error for 1, the invalid-command error carrying the
\* requested AT identifier for 2, the invalid-parameter error for 3, and an
\* unknown-status error carrying the status for any other status; no data
\* accompanies an error.
C5_ValidationMapping ==
    \A c \in Procs :
        LET raw == loc[c].ev.raw
            res == loc[c].res
        IN  (/\ Returned(c) /\ loc[c].op = "at"
             /\ Len(raw) >= 5
             /\ raw[1] = frameATCommandResponse)
            => /\ IF <<raw[3], raw[4]>> # loc[c].cmd
                  THEN res.err.kind = "ATMismatch"
                  ELSE CASE raw[5] = 0 -> res.err = NoErr
                         [] raw[5] = 1 -> res.err.kind = "ErrResponse"
                         [] raw[5] = 2 ->
                              /\ res.err.kind = "ErrInvalidCommand"
                              /\ res.err.info = loc[c].cmd
                         [] raw[5] = 3 -> res.err.kind = "ErrInvalidParameter"
                         [] OTHER ->
                              /\ res.err.kind = "Unknown"
                              /\ res.err.info = <<raw[5]>>
               /\ res.err # NoErr => res.data = NilBytes

\* A caller has returned the invalid-command error for the request ZZ
C5_Witness ==
    \E c \in Procs :
        /\ Returned(c) /\ loc[c].op = "at" /\ loc[c].cmd = <<90, 90>>
        /\ loc[c].ev.raw = ATResp(loc[c].fid, <<90, 90>>, 2, <<>>)
        /\ loc[c].res = [data |-> NilBytes,
                         err |-> Err("ErrInvalidCommand", <<90, 90>>)]

\* C18: a single-response request has no timeout: once its frame has been
\* written, atCommand leaves its receive only by taking an event that was
\* placed in its waiter's channel; while the channel is empty the call can
\* take no step, and once the reader task has terminated with the channel
\* empty the call stays in its receive for ever.
C18_NoTimeout ==
    /\ [](\A c \in Procs :
            (pc[c] = "recv" /\ chans[c] = <<>>) => ~ENABLED CallerStep(c))
    /\ [][ \A c \in Procs :
            (pc[c] = "recv" /\ pc'[c] # "recv")
            => /\ chans[c] # <<>>
               /\ loc'[c].ev = Head(chans[c])
               /\ loc'[c].ev.type \in EventTypes ]_vars
    /\ [][ \A c \in Procs :
            (rd.pc = "stopped" /\ pc[c] = "recv" /\ chans[c] = <<>>)
            => (pc'[c] = "recv" /\ chans'[c] = <<>>) ]_vars

\* The request was written, the reader task has terminated, and the caller
\* waits on its empty channel
C18_Witness ==
    /\ pc[1] = "recv" /\ chans[1] = <<>>
    /\ Len(written) = 1 /\ written[1].by = 1
    /\ rd.pc = "stopped" /\ ~crashed

\* The transmit-request frame Transmit builds for caller c's call
TransmitFrame(c) ==
    Frame(<<frameZigBeeTransmitRequest, loc[c].fid>> \o loc[c].hdr
          \o loc[c].val)

\* C19: Transmit is fire-and-forget: no step of it changes the registry or
\* any channel and it never waits for an event; when it returns without
\* error it has written one transmit-request frame; and the complete
\* transmit-status frame carrying its frame id, read after it returned, is
\* routed to the global event channel and placed there when there is room.
C19_TransmitFireAndForget ==
    /\ [](\A c \in Procs :
            /\ loc[c].op = "tx"
                 => pc[c] \notin {"reg", "recv", "gather", "unreg"}
            /\ (Returned(c) /\ loc[c].op = "tx" /\ loc[c].res.err = NoErr)
                 => /\ written # <<>>
                    /\ Len(written) <= loc[c].nreq
                    /\ written[Len(written)] =
                          [by |-> c, bytes |-> TransmitFrame(c)])
    /\ [][ \A c \in Procs :
            (loc'[c].op = "tx" /\ (pc'[c] # pc[c] \/ loc'[c] # loc[c]))
            => /\ idMap' = idMap
               /\ chans' = chans
               /\ eventCh' = eventCh ]_vars
    /\ [][ (/\ ReaderTakes({frameZigBeeTransmitStatus})
            /\ Len(RdFrame.buf) >= 7
            /\ \E c \in Procs : /\ Returned(c) /\ loc[c].op = "tx"
                                 /\ loc[c].res.err = NoErr
                                 /\ loc[c].fid = RdFrame.buf[2])
           => /\ ~crashed'
              /\ rd' = [pc |-> "send", ch |-> NilCh,
                        ev |-> rd'.ev]
              /\ rd'.ev.type = "TransmitStatus"
              /\ rd'.ev.raw = RdFrame.buf ]_vars
    /\ [][ (/\ ReaderSends({"TransmitStatus"}) /\ rd.ch = NilCh
            /\ Len(eventCh) < EventChCap)
           => eventCh' = Append(eventCh, rd.ev) ]_vars

\* Transmit has returned and the status frame for its frame id is on the
\* global event channel
C19_Witness ==
    /\ Returned(1) /\ loc[1].op = "tx" /\ loc[1].res.err = NoErr
    /\ idMap = EmptyMap
    /\ Len(written) = 1
    /\ Len(eventCh) = 1
    /\ eventCh[1].type = "TransmitStatus"
    /\ eventCh[1].raw[2] = loc[1].fid

-----------------------------------------------------------------------------
(* Properties of concurrent callers (SpecConc) *)

\* Caller c has been given its frame id and has not returned yet
HasID(c) ==
    pc[c] \in {"hdr", "copy", "reg", "wfPrep", "wfWrite", "recv", "unreg"}

\* Caller c is an atCommand between registerListener and unregisterListener
Waiting(c) ==
    loc[c].op = "at" /\ pc[c] \in {"wfPrep", "wfWrite", "recv", "unreg"}

\* The frame of the request caller c has made
RequestFrame(c) ==
    Frame(<<IF loc[c].op = "at" THEN frameATCommand
            ELSE frameZigBeeTransmitRequest, loc[c].fid>>
          \o (IF loc[c].op = "at" THEN loc[c].cmd ELSE loc[c].hdr)
          \o loc[c].val)

\* C6: at every moment at most one in-progress request waits on any given
\* frame id: two waiting callers hold different ids and each one's id is
\* mapped to its own channel, and registering never replaces a live waiter.
C6_OneWaiterPerID ==
    \A c1 \in Procs, c2 \in Procs :
        (Waiting(c1) /\ Waiting(c2) /\ c1 # c2)
            => /\ loc[c1].fid # loc[c2].fid
               /\ loc[c1].fid \in DOMAIN idMap
               /\ idMap[loc[c1].fid] = c1

\* C7: concurrent callers of nextFrameID never receive duplicate ids and
\* never receive 0.
C7_UniqueNonZeroIDs ==
    /\ \A c \in Procs : HasID(c) => loc[c].fid \in 1..255
    /\ \A c1 \in Procs, c2 \in Procs :
          (HasID(c1) /\ HasID(c2) /\ c1 # c2) => loc[c1].fid # loc[c2].fid

\* C8: every frame written to the port is entirely one caller's frame:
\* kind, frame id, AT identifier or transmit header, parameters, length and
\* checksum all come from the request of the caller that wrote it.
C8_WrittenFramesWhole ==
    \A i \in 1..Len(written) :
        written[i].bytes = RequestFrame(written[i].by)

-----------------------------------------------------------------------------
(* The reader alone on a byte stream (SpecStream) *)

\* Longest run of noise before a frame
MaxNoise == 2
\* Noise bytes: zero, the delimiter, a kind byte, all ones
NoiseBytes == {0, frameDelimiter, frameModemStatus, 255}
NoiseSeqs == UNION { [1..n -> NoiseBytes] : n \in 0..MaxNoise }

\* Payloads of frames that are complete for their kind
StreamPayloads ==
    { <<frameModemStatus, 2>>,
      ATResp(1, atSerialNumberHigh, CSOK, <<0, 19>>),
      <<frameZigBeeTransmitStatus, 1, 255, 254, 0, 0, 0>>,
      RxPacket,
      <<153, 1>> }

\* The Go type readLoop gives a payload of this kind
KindType(k) ==
    CASE k = frameModemStatus -> "ModemStatus"
      [] k = frameATCommandResponse -> "ATCommandResponse"
      [] k = frameZigBeeTransmitStatus -> "TransmitStatus"
      [] k = frameZigBeeReceivePacket -> "ReceivePacket"
      [] OTHER -> "UnknownFrame"

\* Byte b with bit k inverted
FlipBit(b, k) ==
    LET w == 2 ^ k IN IF (b \div w) % 2 = 1 THEN b - w ELSE b + w

\* Every frame got from f by inverting one bit of its payload or of its
\* checksum
FlipsOf(f) ==
    { [f EXCEPT ![i] = FlipBit(f[i], k)] : i \in 4..Len(f), k \in 0..7 }

BitFlipStreams ==
    UNION { FlipsOf(Frame(p)) :
              p \in { <<frameModemStatus, 2>>,
                      ATResp(1, atSerialNumberHigh, CSOK, <<>>) } }

\* Checksum-valid frames with length 0 and 1
TinyStreams == { Frame(<<>>), Frame(<<frameModemStatus>>) }

\* A byte other than the delimiter where a delimiter is expected
BadDelimiterStreams == { <<0>>, <<255>>, <<frameModemStatus>> }

CorruptStreams == BitFlipStreams \cup TinyStreams \cup BadDelimiterStreams

\* Noise followed by one frame
NoisyStreams == { noise \o Frame(p) : noise \in NoiseSeqs, p \in StreamPayloads }

\* The module sends one stream, chosen at the start; no caller runs
InitStream ==
    /\ InitDriver
    /\ callers = {}
    /\ menu \in { {bs} : bs \in NoisyStreams \cup CorruptStreams }

NextStream ==
    \/ \E bs \in menu : ModuleSend(bs)
    \/ ReadLoopRead
    \/ ReadLoopSend

SpecStream == InitStream /\ [][NextStream]_vars

\* The reader has nothing it can do with the bytes it has
ReaderIdle ==
    /\ rd.pc = "scan"
    /\ IF inb = <<>> THEN TRUE ELSE readFrame(inb).st = "wait"

\* The byte values of a sequence
Range(q) == { q[i] : i \in DOMAIN q }

\* The global event channel holds exactly the event of payload p
HoldsEventOf(p) ==
    /\ Len(eventCh) = 1
    /\ eventCh[1].type = KindType(p[1])
    /\ eventCh[1].raw = p

\* C11 as stated: for a stream of arbitrary noise bytes followed by one valid
\* frame F, the reader resynchronises and produces the event for F exactly
\* once.
C11_ResyncAfterAnyNoise ==
    \A noise \in NoiseSeqs, p \in StreamPayloads :
        (menu = {noise \o Frame(p)} /\ nsent = 1)
            => /\ ~crashed
               /\ eventCh = <<>> \/ HoldsEventOf(p)
               /\ ReaderIdle => (HoldsEventOf(p) /\ inb = <<>>)

\* C11 amended: for a stream of noise bytes none of which is the delimiter
\* 0x7E, followed by one frame F that is complete for its kind, the reader
\* skips the noise and produces the event for F exactly once on the global
\* event channel, leaving no byte unread.
C11_ResyncAfterDelimiterFreeNoise ==
    \A noise \in NoiseSeqs, p \in StreamPayloads :
        (/\ menu = {noise \o Frame(p)} /\ nsent = 1
         /\ frameDelimiter \notin Range(noise))
            => /\ ~crashed
               /\ eventCh = <<>> \/ HoldsEventOf(p)
               /\ \A c \in Procs : chans[c] = <<>>
               /\ ReaderIdle => (HoldsEventOf(p) /\ inb = <<>>)

\* Two noise bytes were skipped and the receive packet that followed them
\* has been delivered
C11_Witness ==
    /\ menu = {<<0, 255>> \o Frame(RxPacket)}
    /\ nsent = 1 /\ ReaderIdle /\ inb = <<>>
    /\ HoldsEventOf(RxPacket)

\* C12: a corrupt inbound frame (a byte other than 0x7E where a delimiter is
\* expected, a frame with one bit of its payload or checksum inverted, a
\* checksum-valid frame of length below 2) produces no event on any channel
\* and leaves the reader running in the scanning state with the corrupt
\* bytes consumed.
C12_CorruptFramesSwallowed ==
    (menu \subseteq CorruptStreams)
        => /\ ~crashed
           /\ rd.pc = "scan"
           /\ eventCh = <<>>
           /\ \A c \in Procs : chans[c] = <<>>
           /\ ReaderIdle => inb = <<>>

\* A frame with one inverted bit has been read and dropped
C12_Witness ==
    /\ menu \subseteq BitFlipStreams
    /\ nsent = 1 /\ inb = <<>> /\ rd.pc = "scan" /\ ~crashed
    /\ eventCh = <<>>

-----------------------------------------------------------------------------
(* Properties of delivery and of gathering requests (SpecGather) *)

\* The channel the reader is about to send to has no room
TargetFull ==
    IF rd.ch = NilCh THEN Len(eventCh) >= EventChCap
    ELSE IF rd.ch \in Procs THEN Len(chans[rd.ch]) >= WaiterCap
    ELSE TRUE

C15_DeadlineReturnsAccumulated ==
    [][ \A c \in Procs :
          (/\ pc[c] = "gather" /\ pc'[c] # "gather"
           /\ chans'[c] = chans[c])
          => /\ ~crashed'
             /\ loc'[c].res.err = NoErr
             /\ loc'[c].res.data = loc[c].nodes
             /\ loc'[c].nodes = loc[c].nodes ]_vars

\* NodeDiscover has returned one node and no error
C15_Witness ==
    /\ Returned(1) /\ loc[1].op = "nd"
    /\ loc[1].res.err = NoErr
    /\ Len(loc[1].res.data) = 1
    /\ loc[1].res.data[1].NodeID = <<65>>
    /\ loc[1].res.data[1].ManufacturerID = 4126

\* C16: in a gathering request, a validation error on a received event ends
\* the request and returns the records accumulated before that event
\* together with the error, whichever check fails; receiving an event never
\* ends the process.
C16_ErrorKeepsAccumulated ==
    [][ \A c \in Procs :
          (/\ pc[c] = "gather"
           /\ Len(chans'[c]) < Len(chans[c]))
          => /\ ~crashed' /\ pc'[c] # "panic"
             /\ pc'[c] # "gather"
                  => /\ loc'[c].res.err # NoErr
                     /\ loc'[c].res.data = loc[c].nodes ]_vars

\* The event is a response to caller c's gathering request that carries a
\* complete record
ValidRecord(c, ev) ==
    /\ ev.type = "ATCommandResponse"
    /\ ev.raw[2] = loc[c].fid
    /\ <<ev.v[1], ev.v[2]>> = loc[c].cmd
    /\ ev.v[3] = CSOK
    /\ IF loc[c].op = "nd" THEN ev.Data \in {NodeRecA, NodeRecB}
       ELSE ev.Data = ScanRec

\* C17: in a gathering request every valid response frame with the request's
\* frame id that the reader decodes before the deadline becomes exactly one
\* record: the reader places its event in the waiter's channel, also when
\* an earlier valid response is still waiting there, and the caller's
\* receive of it appends one record.
C17_EveryResponseBecomesRecord ==
    /\ [][ (/\ ReaderSends({"ATCommandResponse"})
            /\ rd.ch \in Procs
            /\ loc[rd.ch].op \in {"nd", "as"}
            /\ pc[rd.ch] \in {"wfPrep", "wfWrite", "gather"}
            /\ ValidRecord(rd.ch, rd.ev)
            /\ \A i \in 1..Len(chans[rd.ch]) :
                  ValidRecord(rd.ch, chans[rd.ch][i]))
           => chans'[rd.ch] = Append(chans[rd.ch], rd.ev) ]_vars
    /\ [][ \A c \in Procs :
            (/\ pc[c] = "gather"
             /\ Len(chans'[c]) < Len(chans[c])
             /\ ValidRecord(c, Head(chans[c])))
            => /\ pc'[c] = "gather"
               /\ Len(loc'[c].nodes) = Len(loc[c].nodes) + 1 ]_vars

-----------------------------------------------------------------------------
(* The owner closes the driver while the reader runs (SpecClose) *)

\* No caller runs; the module sends frames of every kind
InitClose ==
    /\ InitDriver
    /\ callers = {}
    /\ menu = MenuSeq

NextClose ==
    \/ Close
    \/ \E bs \in menu : ModuleSend(bs)
    \/ ReadLoopRead
    \/ ReadLoopSend

SpecClose == InitClose /\ [][NextClose]_vars

\* C14: after Close has closed the event channel, an event the reader routes
\* to the global event channel is dropped and the reader keeps running: the
\* send neither fails the reader nor ends the process.
C14_SendAfterCloseDropped ==
    [][ (ReaderSends(EventTypes) /\ rd.ch = NilCh /\ closed)
        => /\ ~crashed'
           /\ rd'.pc = "scan"
           /\ eventCh' = eventCh ]_vars

-----------------------------------------------------------------------------
(* Properties of the size tests (SpecSize) *)

\* The call recorded in l gave a size its operation refuses
SizeRefused(l) ==
    \/ l.via = "at" /\ l.vlen > 65528
    \/ l.via = "tx" /\ l.vlen > 65516
    \/ l.via = "SetLinkKey" /\ l.vlen # 16
    \/ l.via = "SetNetworkEncryptionKey" /\ l.vlen \notin {0, 16}

\* C20: every size-test failure (SetLinkKey with a key length other than 16,
\* SetNetworkEncryptionKey with a key length other than 0 or 16, atCommand
\* with more than 65528 parameter bytes, Transmit with more than 65516 data
\* bytes) returns an error at once with the driver state unchanged: no byte
\* written, no frame id allocated, no waiter registered.
C20_SizeFailureChangesNothing ==
    /\ [][ \A c \in Procs :
            (loc'[c].nreq = loc[c].nreq + 1 /\ SizeRefused(loc'[c]))
            => /\ pc'[c] = "idle" /\ pc[c] = "idle"
               /\ loc'[c].res.err # NoErr
               /\ loc'[c].res.data = NilBytes
               /\ written' = written
               /\ frameID' = frameID
               /\ wbuf' = wbuf
               /\ idMap' = idMap
               /\ chans' = chans
               /\ eventCh' = eventCh ]_vars
    /\ [](\A c \in Procs :
            SizeRefused(loc[c])
              => /\ pc[c] = "idle"
                 /\ loc[c].fid = 0
                 /\ loc[c].res.err.kind \in {"Size", "KeySize"})

\* SetLinkKey has refused a 15-byte key on a driver that has written
\* nothing
C20_Witness ==
    /\ Returned(1) /\ loc[1].via = "SetLinkKey" /\ loc[1].vlen = 15
    /\ loc[1].res = [data |-> NilBytes, err |-> Err("KeySize", <<120>>)]
    /\ written = <<>> /\ idMap = EmptyMap
    /\ frameID \in StartIDs /\ wbuf = WbufAfter(frameID)

-----------------------------------------------------------------------------
(* The error kinds a caller can tell apart (Spec) *)

\* C21: when the module answers an AT command with status 4 (Tx failure),
\* atCommand returns the Tx-failure error (ErrTXFailure), an error kind of
\* its own that the caller can tell from the others.
C21_TxFailureKind ==
    \A c \in Procs :
        LET raw == loc[c].ev.raw
        IN  (/\ Returned(c) /\ loc[c].op = "at"
             /\ Len(raw) >= 5
             /\ raw[1] = frameATCommandResponse
             /\ <<raw[3], raw[4]>> = loc[c].cmd
             /\ raw[5] = CSTxFailure)
            => loc[c].res.err.kind = "ErrTXFailure"

-----------------------------------------------------------------------------
(* Properties of SerialNumber and the data rate operations (SpecWrap) *)

\* The event caller c received is a successful response to its AT command
GotOK(c) ==
    LET raw == loc[c].ev.raw
    IN  /\ Len(raw) >= 5
        /\ raw[1] = frameATCommandResponse
        /\ <<raw[3], raw[4]>> = loc[c].cmd
        /\ raw[5] = CSOK

\* The four value bytes of a 9-byte AT command response as two 16-bit halves
ValueHalves(raw) == <<raw[6] * 256 + raw[7], raw[8] * 256 + raw[9]>>

\* C22: SerialNumber writes exactly two AT command frames when both succeed,
\* SH first and SL only after the SH response has been received, and returns
\* (SH << 32) | SL, SH and SL being the 4-byte big-endian response values; a
\* response that is not exactly 4 bytes fails the call.
C22_SerialNumber ==
    /\ [][ \A c \in Procs :
            (/\ pc[c] = "wrap" /\ pc'[c] # "wrap"
             /\ loc[c].via = "SerialNumber" /\ GotOK(c))
            => LET raw == loc[c].ev.raw
               IN  IF Len(raw) # 9
                   THEN /\ pc'[c] = "idle"
                        /\ loc'[c].res.err.kind = "Shape"
                        /\ written' = written
                   ELSE IF loc[c].cmd = <<83, 72>>
                   THEN /\ pc'[c] = "nfStore"
                        /\ loc'[c].cmd = <<83, 76>>
                        /\ loc'[c].acc = ValueHalves(raw) \o <<0, 0>>
                   ELSE /\ pc'[c] = "idle"
                        /\ loc'[c].res =
                             [data |-> <<SubSeq(loc[c].acc, 1, 2)
                                           \o ValueHalves(raw)>>,
                              err |-> NoErr] ]_vars
    /\ [][ \A c \in Procs :
            (/\ pc[c] = "wfWrite" /\ loc[c].via = "SerialNumber"
             /\ written' # written)
            => IF loc[c].cmd = <<83, 72>>
               THEN /\ written = <<>>
                    /\ written'[1].bytes =
                           Frame(<<frameATCommand, loc[c].fid, 83, 72>>)
               ELSE /\ Len(written) = 1
                    /\ Len(loc[c].acc) = 4
                    /\ written'[2].bytes =
                           Frame(<<frameATCommand, loc[c].fid, 83, 76>>) ]_vars
    /\ [](\A c \in Procs :
            (Returned(c) /\ loc[c].via = "SerialNumber")
            => IF loc[c].res.err = NoErr
               THEN /\ Len(written) = 2
                    /\ written[1].bytes[6] = 83 /\ written[1].bytes[7] = 72
                    /\ written[2].bytes[6] = 83 /\ written[2].bytes[7] = 76
                    /\ loc[c].cmd = <<83, 76>>
               ELSE loc[c].res.data = <<Zero64>>)

\* SerialNumber has returned 0x0013A2004009FFFE after two frames
C22_Witness ==
    /\ Returned(1) /\ loc[1].via = "SerialNumber"
    /\ loc[1].res = [data |-> <<<<19, 41472, 16393, 65534>>>>, err |-> NoErr]
    /\ Len(written) = 2

\* The big-endian value of at most four bytes
ValueOf(d) ==
    CASE Len(d) = 0 -> 0
      [] Len(d) = 1 -> d[1]
      [] Len(d) = 2 -> d[1] * 256 + d[2]
      [] Len(d) = 3 -> (d[1] * 256 + d[2]) * 256 + d[3]
      [] OTHER -> ((d[1] * 256 + d[2]) * 256 + d[3]) * 256 + d[4]

\* The table of standard rates as the interface documents it
RateTable == <<1200, 2400, 4800, 9600, 19200, 38400, 57600, 115200>>

\* C23: SetInterfaceDataRate(baud) sends the 4-byte big-endian index i when
\* baud is entry i of 1200, 2400, 4800, 9600, 19200, 38400, 57600, 115200
\* (9600 -> 00 00 00 03) and otherwise baud itself as four big-endian bytes
\* (230400 -> 00 03 84 00); InterfaceDataRate returns the table entry v when
\* the value v the module returned is at most 7 (3 -> 9600) and v itself
\* otherwise (0x384 -> 900).
C23_BaudRateEncoding ==
    /\ [][ \A c \in Procs :
            (/\ pc[c] = "wfWrite" /\ loc[c].via = "SetInterfaceDataRate"
             /\ written' # written)
            => LET out == written'[Len(written')].bytes
                   p == SubSeq(out, 8, 11)
                   baud == loc[c].arg
               IN  /\ Len(out) = 12
                   /\ SubSeq(out, 1, 7) =
                          <<126, 0, 8, frameATCommand, loc[c].fid, 66, 68>>
                   /\ \A k \in 1..4 : p[k] \in 0..255
                   /\ IF \E i \in 1..8 : RateTable[i] = baud
                      THEN \E i \in 1..8 : RateTable[i] = baud /\ p = <<0, 0, 0, i - 1>>
                      ELSE ValueOf(p) = baud
                   /\ baud = 9600 => p = <<0, 0, 0, 3>>
                   /\ baud = 230400 => p = <<0, 3, 132, 0>> ]_vars
    /\ [][ \A c \in Procs :
            (/\ pc[c] = "wrap" /\ pc'[c] # "wrap"
             /\ loc[c].via = "InterfaceDataRate" /\ GotOK(c))
            => LET d == SubSeq(loc[c].ev.raw, 6, Len(loc[c].ev.raw))
                   v == ValueOf(d)
               IN  /\ pc'[c] = "idle"
                   /\ loc'[c].res =
                        [data |-> <<IF v <= 7 THEN RateTable[v + 1] ELSE v>>,
                         err |-> NoErr]
                   /\ d = <<0, 0, 0, 3>> => loc'[c].res.data = <<9600>>
                   /\ d \in {<<3, 132>>, <<0, 0, 3, 132>>}
                        => loc'[c].res.data = <<900>> ]_vars

\* InterfaceDataRate has returned 900 for the value 03 84
C23_Witness ==
    /\ Returned(1) /\ loc[1].via = "InterfaceDataRate"
    /\ loc[1].ev.Data = <<3, 132>>
    /\ loc[1].res = [data |-> <<900>>, err |-> NoErr]

-----------------------------------------------------------------------------
(* The size limit of Transmit (SpecSize) *)

\* C24: Transmit with 65520 bytes of data fails with a size error; with
\* 65516 bytes it succeeds and writes exactly 4 + 14 + 65516 = 65534 bytes,
\* the 16-bit length field holding 65530 and every index used staying inside
\* the 65539-byte encode buffer.
C24_TransmitBoundary ==
    /\ [][ \A c \in Procs :
            (loc'[c].nreq = loc[c].nreq + 1 /\ loc'[c].via = "tx")
            => /\ loc'[c].vlen = 65520
                    => /\ pc'[c] = "idle"
                       /\ loc'[c].res.err.kind = "Size"
                       /\ written' = written /\ wbuf' = wbuf
               /\ loc'[c].vlen = 65516
                    => /\ pc'[c] = "nfStore"
                       /\ loc'[c].res.err = NoErr ]_vars
    /\ [][ \A c \in Procs :
            (/\ pc[c] \in {"wfPrep", "wfWrite"} /\ pc'[c] # pc[c]
             /\ loc[c].via = "tx" /\ loc[c].vlen = 65516)
            => IF pc[c] = "wfPrep"
               THEN pc'[c] = "wfWrite"
               ELSE written' # written
                    => LET out == written'[Len(written')].bytes
                       IN  /\ Len(out) = 65534
                           /\ out[1] = 126
                           /\ out[2] = 255 /\ out[3] = 250
                           /\ out[4] = frameZigBeeTransmitRequest
                           /\ SubSeq(out, 18, 65533) = loc[c].val
                           /\ (PlainSum(out, 4, 65533) + out[65534]) % 256 = 255
                           /\ pc'[c] = "idle"
                           /\ loc'[c].res.err = NoErr ]_vars
    /\ [](Len(wbuf) <= 65539)

\* Transmit has refused 65520 bytes of data and written nothing
C24_Witness ==
    /\ Returned(1) /\ loc[1].via = "tx" /\ loc[1].vlen = 65520
    /\ loc[1].res.err = Err("Size", <<>>)
    /\ written = <<>>

-----------------------------------------------------------------------------
(* The reader's survival (Spec) *)

\* C25: the reader stops only on an error or EOF of the byte stream: every
\* checksum-valid frame with a payload of at least 2 bytes, whatever its kind
\* byte and length, is classified into one event, which the reader holds for
\* sending, and the reader does not fail.
C25_EveryValidFrameClassified ==
    [][ (/\ ~crashed
         /\ RdFrame.st = "frame" /\ Len(RdFrame.buf) >= 2
         /\ inb' = RdFrame.rest)
        => /\ ~crashed'
           /\ rd'.pc = "send"
           /\ rd'.ev.type \in EventTypes
           /\ rd'.ev.raw = RdFrame.buf ]_vars

-----------------------------------------------------------------------------
(* The waiter's release (SpecExit) *)

\* Caller c holds a registration: it has run registerListener and not yet
\* its deferred unregisterListener
Registered(c) ==
    /\ UsesWaiter(loc[c].op)
    /\ pc[c] \in {"wfPrep", "wfWrite", "recv", "gather", "unreg", "panic"}

\* C26: every request that registers a waiter unregisters it on every exit
\* path (write error, wrong event type, validation error, malformed record,
\* deadline expiry, success): a request ends only through its unregister
\* step, which removes its frame id, or, when it panics, through the
\* deferred unregister of the unwinding, which removes it too; so whenever
\* no request is in progress the registry is empty and a lookup of a
\* finished request's id finds nothing.
C26_WaiterAlwaysReleased ==
    /\ [][ \A c \in Procs :
            (Registered(c) /\ pc'[c] \in {"idle", "exit"})
            => /\ pc[c] \in {"unreg", "panic"}
               /\ loc[c].fid \notin DOMAIN idMap' ]_vars
    /\ []((\A c \in callers : pc[c] \in {"idle", "exit"})
            => idMap = EmptyMap)
    /\ []((\A c \in callers : pc[c] \in {"idle", "exit"})
            => \A c \in callers :
                  ((Returned(c) \/ pc[c] = "exit")
                     /\ UsesWaiter(loc[c].op) /\ loc[c].fid # 0)
                  => lookup(idMap, loc[c].fid) = NilCh)

\* NodeDiscover has returned the short-record error and the registry is empty
C26_Witness ==
    /\ Returned(1) /\ loc[1].op = "nd"
    /\ loc[1].res.err.kind = "ShortRecord"
    /\ loc[1].fid # 0 /\ idMap = EmptyMap

-----------------------------------------------------------------------------
(* Registration before the write (SpecConc) *)

\* Caller c is at or past the port write of a request that uses a waiter,
\* and has not started to return
WriteBegun(c) ==
    UsesWaiter(loc[c].op) /\ pc[c] \in {"wfWrite", "recv", "gather"}

\* C27: in atCommand, NodeDiscover and ActiveScan the waiter for the
\* request's frame id is registered before the first byte of the request
\* frame is written, so a response decoded at any point after the write
\* begins finds the waiter registered: the reader's lookup yields the
\* caller's channel.
C27_RegisteredBeforeWrite ==
    /\ [][ \A c \in Procs :
            (/\ pc[c] = "wfWrite" /\ UsesWaiter(loc[c].op)
             /\ written' # written)
            => /\ loc[c].fid # 0
               /\ lookup(idMap, loc[c].fid) = c ]_vars
    /\ [][ \A c \in Procs :
            (/\ WriteBegun(c)
             /\ ReaderTakes({frameATCommandResponse})
             /\ Len(RdFrame.buf) >= 5
             /\ RdFrame.buf[2] = loc[c].fid)
            => /\ rd'.pc = "send"
               /\ rd'.ch = c ]_vars
    /\ [](\A c \in Procs : WriteBegun(c) => lookup(idMap, loc[c].fid) = c)

\* C28: while a request is in progress, after its registerListener and
\* before its own unregisterListener, the registry maps its frame id to its
\* own channel: no other request's register replaces the entry and no other
\* request's unregister removes it, so the reader never routes its response
\* to the global event channel.
C28_OwnEntryWhileInProgress ==
    /\ [](\A c \in Procs :
            (UsesWaiter(loc[c].op)
               /\ pc[c] \in {"wfPrep", "wfWrite", "recv", "gather", "unreg"})
            => /\ loc[c].fid \in DOMAIN idMap
               /\ idMap[loc[c].fid] = c)
    /\ [][ \A c \in Procs :
            (/\ WriteBegun(c)
             /\ ReaderTakes({frameATCommandResponse})
             /\ Len(RdFrame.buf) >= 5
             /\ RdFrame.buf[2] = loc[c].fid)
            => rd'.ch # NilCh ]_vars

-----------------------------------------------------------------------------
(* The frame id allocator used by one caller (SpecAlloc) *)

\* C29: over any number of successive allocations by a single caller
\* nextFrameID never returns 0, each value differs from the previous one,
\* the first value of a fresh driver is 1, and the value after 255 is 1.
C29_SingleCallerAllocation ==
    \A c \in callers :
        loc[c].nreq > 0
        => /\ loc[c].fid \in 1..255
           /\ loc[c].fid = frameID
           /\ loc[c].nreq = 1 => loc[c].fid = 1
           /\ loc[c].nreq > 1 => loc[c].fid # loc[c].r
           /\ loc[c].r = 255 => loc[c].fid = 1
           /\ loc[c].fid = ((loc[c].nreq - 1) % 255) + 1

\* The allocation after the one that returned 255 has returned 1
C29_Witness ==
    loc[1].nreq = 256 /\ loc[1].r = 255 /\ loc[1].fid = 1

-----------------------------------------------------------------------------
(* Order of delivery (SpecOrder) *)

\* The place on the wire of the frame an event was made from
OrdinalOf(ev) ==
    IF ev.type = "ModemStatus" THEN ev.raw[2] ELSE ev.raw[16] - 64

\* The events of channel q lie in wire order
InWireOrder(q) ==
    \A i, j \in 1..Len(q) : i < j => OrdinalOf(q[i]) < OrdinalOf(q[j])

\* C30: for any single frame id the events the reader places in that id's
\* waiter channel appear in the order their frames arrived on the wire, and
\* so do the events placed on the global event channel: each send puts the
\* event behind those already queued, the event comes from a later frame
\* than every event queued or already received from that channel, and the
\* waiter receives its events in wire order.
C30_DeliveredInWireOrder ==
    /\ [](InWireOrder(eventCh) /\ \A c \in Procs : InWireOrder(chans[c]))
    /\ [](rd.pc = "send"
            => /\ \A i \in 1..Len(eventCh) :
                     OrdinalOf(eventCh[i]) < OrdinalOf(rd.ev)
               /\ \A c \in Procs :
                     /\ \A i \in 1..Len(chans[c]) :
                           OrdinalOf(chans[c][i]) < OrdinalOf(rd.ev)
                     /\ loc[c].ev # NoEvent
                           => OrdinalOf(loc[c].ev) < OrdinalOf(rd.ev))
    /\ [][ /\ (eventCh' # eventCh => eventCh' = Append(eventCh, rd.ev))
           /\ \A c \in Procs :
                 /\ (chans'[c] # chans[c] /\ rd'.pc # rd.pc)
                       => chans'[c] = Append(chans[c], rd.ev)
                 /\ (pc[c] = "gather" /\ loc'[c].ev # loc[c].ev
                       /\ loc[c].ev # NoEvent)
                       => OrdinalOf(loc[c].ev) < OrdinalOf(loc'[c].ev) ]_vars

\* The first and third frames lie on the global event channel in that order
\* and the gathering request has received the second
C30_Witness ==
    /\ Len(eventCh) = 2
    /\ OrdinalOf(eventCh[1]) = 1 /\ OrdinalOf(eventCh[2]) = 3
    /\ pc[1] = "gather" /\ loc[1].ev # NoEvent /\ OrdinalOf(loc[1].ev) = 2

-----------------------------------------------------------------------------
(* An event of another kind on an atCommand waiter (Spec) *)

\* C31: if the event delivered to an atCommand waiter is not an AT command
\* response (for example a transmit status frame carrying the same frame
\* id), the call fails with the frame-mismatch error, returns no data, and
\* its waiter is unregistered: the receive of such an event leads to the
\* deferred unregister step with that result, and once the call has
\* returned its frame id is no longer in the registry.
C31_WrongEventFailsCall ==
    /\ [][ \A c \in Procs :
            (/\ pc[c] = "recv"
             /\ Len(chans'[c]) < Len(chans[c])
             /\ Head(chans[c]).type # "ATCommandResponse")
            => /\ pc'[c] = "unreg"
               /\ loc'[c].ev = Head(chans[c])
               /\ loc'[c].res = [data |-> NilBytes,
                                 err |-> Err("WrongFrame", <<>>)]
               /\ idMap' = idMap ]_vars
    /\ [](\A c \in Procs :
            (/\ Returned(c) /\ loc[c].op = "at"
             /\ loc[c].ev.type \notin {"none", "ATCommandResponse"})
            => /\ loc[c].res = [data |-> NilBytes,
                                err |-> Err("WrongFrame", <<>>)]
               /\ loc[c].fid \notin DOMAIN idMap
               /\ lookup(idMap, loc[c].fid) = NilCh)

\* atCommand has returned the frame-mismatch error after a transmit status
\* frame with its frame id, and the registry is empty
C31_Witness ==
    /\ Returned(1) /\ loc[1].op = "at"
    /\ loc[1].ev.type = "TransmitStatus"
    /\ loc[1].ev.raw[2] = loc[1].fid
    /\ loc[1].res = [data |-> NilBytes, err |-> Err("WrongFrame", <<>>)]
    /\ idMap = EmptyMap

-----------------------------------------------------------------------------
(* Node discovery records of every shape (SpecGather) *)

\* The event is a successful ND response with at least 18 data bytes
LongNDResponse(ev) ==
    /\ ev.type = "ATCommandResponse"
    /\ <<ev.v[1], ev.v[2]>> = <<78, 68>>
    /\ ev.v[3] = CSOK
    /\ Len(ev.Data) >= 18

\* The bytes that follow the node identifier's terminator in the record
\* data, or <<>> when the record has no terminator
AfterTerminator(data) ==
    LET d == SubSeq(data, 11, Len(data))
    IN  IF IndexByte(d, 0) < 0 THEN <<>>
        ELSE SubSeq(d, IndexByte(d, 0) + 2, Len(d))

\* C32: for every OK-status ND response with at least 18 data bytes
\* delivered to NodeDiscover, the call either appends exactly one Node
\* (serial from bytes 2..9, node id up to the NUL, then parent address,
\* device type, status, profile id, manufacturer id) or returns an error; a
\* record whose NUL terminator leaves fewer than 8 bytes after it is
\* reported as an error, and the process never ends by reading past the end
\* of the data.
C32_RecordOrError ==
    [][ \A c \in Procs :
          (/\ pc[c] = "gather" /\ loc[c].op = "nd"
           /\ Len(chans'[c]) < Len(chans[c])
           /\ LongNDResponse(Head(chans[c])))
          => LET data == Head(chans[c]).Data
                 t == AfterTerminator(data)
                 ix == IndexByte(SubSeq(data, 11, Len(data)), 0)
             IN  /\ ~crashed' /\ pc'[c] # "panic"
                 /\ IF pc'[c] = "gather"
                    THEN /\ Len(t) >= 8
                         /\ loc'[c].nodes =
                              Append(loc[c].nodes,
                                [SerialNumber |-> SubSeq(data, 3, 10),
                                 NodeID |-> SubSeq(data, 11, 10 + ix),
                                 ParentNetworkAddress |-> t[1] * 256 + t[2],
                                 DeviceType |-> t[3],
                                 Status |-> t[4],
                                 ProfileID |-> t[5] * 256 + t[6],
                                 ManufacturerID |-> t[7] * 256 + t[8]])
                    ELSE /\ pc'[c] = "unreg"
                         /\ loc'[c].res.err # NoErr
                         /\ loc'[c].nodes = loc[c].nodes
                 /\ Len(t) < 8 => (pc'[c] = "unreg"
                                   /\ loc'[c].res.err # NoErr) ]_vars

-----------------------------------------------------------------------------
(* APIEnabled (SpecAPI) *)

\* C33: APIEnabled returns true exactly when the first data byte of a
\* successful AP response is 2; when the AP command fails (write error,
\* non-OK status, wrong frame) or returns no data bytes, it returns the
\* error to the caller without reading a mode byte and without ending the
\* process.
C33_APIEnabled ==
    [][ \A c \in Procs :
          (/\ pc[c] = "wrap" /\ loc[c].via = "APIEnabled"
           /\ (pc'[c] # "wrap" \/ crashed'))
          => LET raw == loc[c].ev.raw
             IN  /\ ~crashed'
                 /\ pc'[c] = "idle"
                 /\ IF GotOK(c) /\ Len(raw) >= 6
                    THEN loc'[c].res = [data |-> <<raw[6] = 2>>,
                                        err |-> NoErr]
                    ELSE /\ loc'[c].res.err = loc[c].res.err
                         /\ GotOK(c) => loc'[c].res.data = <<FALSE>> ]_vars

====
